---- MODULE Spec2Model ----
(***************************************************************************)
(* Model of src/pipeline/rag_pipeline.py: the RAGPipeline query            *)
(* orchestration (search), answer synthesis (_generate_answer and its      *)
(* fallbacks) and the text normalizer (_clean_text).                       *)
(*                                                                         *)
(* Texts are sequences of one-character strings, so that the regular       *)
(* expressions of the source act on characters as Python's re does.        *)
(***************************************************************************)
EXTENDS Integers, Sequences, FiniteSets, TLC

----------------------------------------------------------------------------
(* Characters and character classes of Python's re (ASCII part).           *)

Digit == {"0", "1", "2", "3", "4", "5", "6", "7", "8", "9"}

LowerLetter ==
  {"a", "b", "c", "d", "e", "f", "g", "h", "i", "j", "k", "l", "m",
   "n", "o", "p", "q", "r", "s", "t", "u", "v", "w", "x", "y", "z"}

UpperLetter ==
  {"A", "B", "C", "D", "E", "F", "G", "H", "I", "J", "K", "L", "M",
   "N", "O", "P", "Q", "R", "S", "T", "U", "V", "W", "X", "Y", "Z"}

Letter == LowerLetter \cup UpperLetter

\* \s
WhiteSpace == {" ", "\n", "\t", "\r", "\f"}

\* \w
WordChar == Letter \cup Digit \cup {"_"}

LowerOf ==
  [c \in UpperLetter |->
     CASE c = "A" -> "a" [] c = "B" -> "b" [] c = "C" -> "c" [] c = "D" -> "d"
       [] c = "E" -> "e" [] c = "F" -> "f" [] c = "G" -> "g" [] c = "H" -> "h"
       [] c = "I" -> "i" [] c = "J" -> "j" [] c = "K" -> "k" [] c = "L" -> "l"
       [] c = "M" -> "m" [] c = "N" -> "n" [] c = "O" -> "o" [] c = "P" -> "p"
       [] c = "Q" -> "q" [] c = "R" -> "r" [] c = "S" -> "s" [] c = "T" -> "t"
       [] c = "U" -> "u" [] c = "V" -> "v" [] c = "W" -> "w" [] c = "X" -> "x"
       [] c = "Y" -> "y" [] c = "Z" -> "z"]

\* a sequence written as a function, evaluated once into a tuple
AsTuple(f) == f \o <<>>

\* a function over a finite set, evaluated once on each argument
Tabulated(f) == f @@ <<>>

\* str.lower() on one character
LowerChar(c) == IF c \in UpperLetter THEN LowerOf[c] ELSE c

\* str.lower()
Lower(s) == AsTuple([i \in 1..Len(s) |-> LowerChar(s[i])])

\* the characters an IGNORECASE literal c matches
AnyCase(c) == {d \in Letter \cup {c} : LowerChar(d) = LowerChar(c)}

----------------------------------------------------------------------------
(* A backtracking matcher with the priorities of Python's re: a pattern is *)
(* a tree of nodes; ReMatch gives, in the order re tries them, the states  *)
(* (end position and captured groups) in which the node can match at a     *)
(* state.  The first state is the match re reports.                        *)

NumGroups == 8

NoGroups == AsTuple([k \in 1..NumGroups |-> <<0, 0>>])

ReSet(S)    == [t |-> "set", s |-> S]
ReCat(rs)   == [t |-> "cat", r |-> rs]
ReStar(n)   == [t |-> "star", r |-> n]
ReOpt(n)    == [t |-> "opt", r |-> n]
ReAlt(a, b) == [t |-> "alt", r |-> <<a, b>>]
ReGrp(k, n) == [t |-> "grp", k |-> k, r |-> n]
ReWordB     == [t |-> "wordb"]
RePlus(n)   == ReCat(<<n, ReStar(n)>>)
\* a literal string, case-sensitive or IGNORECASE
ReLit(cs)   == ReCat(AsTuple([i \in 1..Len(cs) |-> ReSet({cs[i]})]))
ReLitI(cs)  == ReCat(AsTuple([i \in 1..Len(cs) |-> ReSet(AnyCase(cs[i]))]))

RECURSIVE FlattenSeq(_)
FlattenSeq(ss) == IF ss = <<>> THEN <<>> ELSE Head(ss) \o FlattenSeq(Tail(ss))

\* \b at position p of s
AtWordBoundary(s, p) ==
  LET before == p > 1 /\ p - 1 <= Len(s) /\ s[p - 1] \in WordChar
      after  == p <= Len(s) /\ s[p] \in WordChar
  IN  before # after

RECURSIVE ReMatch(_, _, _)
ReMatch(n, s, st) ==
  CASE n.t = "set" ->
         IF st.p <= Len(s) /\ s[st.p] \in n.s
           THEN <<[st EXCEPT !.p = @ + 1]>> ELSE <<>>
    [] n.t = "wordb" ->
         IF AtWordBoundary(s, st.p) THEN <<st>> ELSE <<>>
    [] n.t = "cat" ->
         IF n.r = <<>> THEN <<st>>
         ELSE LET hs == ReMatch(Head(n.r), s, st)
              IN  FlattenSeq(AsTuple([i \in 1..Len(hs) |->
                                ReMatch(ReCat(Tail(n.r)), s, hs[i])]))
    [] n.t = "opt" -> ReMatch(n.r, s, st) \o <<st>>
    [] n.t = "star" ->
         LET hs == ReMatch(n.r, s, st)
         IN  FlattenSeq(AsTuple([i \in 1..Len(hs) |->
                           IF hs[i].p > st.p THEN ReMatch(n, s, hs[i])
                                             ELSE <<>>])) \o <<st>>
    [] n.t = "alt" -> ReMatch(n.r[1], s, st) \o ReMatch(n.r[2], s, st)
    [] n.t = "grp" ->
         LET hs == ReMatch(n.r, s, st)
         IN  AsTuple([i \in 1..Len(hs) |->
                        [hs[i] EXCEPT !.c[n.k] = <<st.p, hs[i].p>>]])

\* the match at position i, as a sequence of zero or one state
ReMatchAt(n, s, i) ==
  LET ms == ReMatch(n, s, [p |-> i, c |-> NoGroups])
  IN  IF ms = <<>> THEN <<>> ELSE <<ms[1]>>

\* re.search(...) is not None
ReSearch(n, s) == \E i \in 1..(Len(s) + 1) : ReMatchAt(n, s, i) # <<>>

\* the text of group k of a match
GroupText(s, st, k) == SubSeq(s, st.c[k][1], st.c[k][2] - 1)

\* replacement templates: literal pieces and group references
TLit(cs) == [g |-> 0, t |-> cs]
TGrp(k)  == [g |-> k, t |-> <<>>]

Expand(repl, s, st) ==
  FlattenSeq(AsTuple([i \in 1..Len(repl) |->
                IF repl[i].g = 0 THEN repl[i].t
                                 ELSE GroupText(s, st, repl[i].g)]))

\* the positions at which the pattern matches a non-empty string
MatchStarts(n, s) ==
  {j \in 1..Len(s) :
     LET m == ReMatchAt(n, s, j) IN m # <<>> /\ m[1].p > j}

MinOf(S) == CHOOSE x \in S : \A y \in S : x <= y

\* re.sub for patterns that match no empty string: the leftmost match is
\* replaced and the scan goes on after it
RECURSIVE ReSubFrom(_, _, _, _, _)
ReSubFrom(n, repl, s, i, starts) ==
  LET later == {j \in starts : j >= i}
  IN  IF later = {} THEN SubSeq(s, i, Len(s))
      ELSE LET j == MinOf(later)
               m == ReMatchAt(n, s, j)[1]
           IN  SubSeq(s, i, j - 1) \o Expand(repl, s, m)
                 \o ReSubFrom(n, repl, s, m.p, starts)

ReSub(n, repl, s) ==
  IF s = <<>> THEN <<>> ELSE ReSubFrom(n, repl, s, 1, MatchStarts(n, s))

\* re.findall for a pattern with one group: the texts of group 1
RECURSIVE ReFindAllFrom(_, _, _, _)
ReFindAllFrom(n, s, i, starts) ==
  LET later == {j \in starts : j >= i}
  IN  IF later = {} THEN <<>>
      ELSE LET m == ReMatchAt(n, s, MinOf(later))[1]
           IN  <<GroupText(s, m, 1)>> \o ReFindAllFrom(n, s, m.p, starts)

ReFindAll(n, s) ==
  IF s = <<>> THEN <<>> ELSE ReFindAllFrom(n, s, 1, MatchStarts(n, s))

----------------------------------------------------------------------------
(* RAGPipeline._clean_text: the ordered regular-expression repairs.        *)

ReDigits == RePlus(ReSet(Digit))

\* \s*  and  \s+
ReWs0 == ReStar(ReSet(WhiteSpace))
ReWs1 == RePlus(ReSet(WhiteSpace))

\* (\d+\.?\d*) as group k
ReNumber(k) ==
  ReGrp(k, ReCat(<<ReDigits, ReOpt(ReSet({"."})), ReStar(ReSet(Digit))>>))

\* \s*\n?\s*([a-z]) as group k, IGNORECASE
ReStackedLetter(k) ==
  ReCat(<<ReWs0, ReOpt(ReSet({"\n"})), ReWs0, ReGrp(k, ReSet(Letter))>>)

vertical_text_pattern ==
  ReCat(<<ReNumber(1)>> \o [i \in 1..7 |-> ReStackedLetter(i + 1)])

\* the letters of a word, each preceded by sep, IGNORECASE
ReSpelled(sep, word) ==
  ReCat(AsTuple([i \in 1..(2 * Len(word)) |->
           IF i % 2 = 1 THEN sep ELSE ReSet(AnyCase(word[i \div 2]))]))

Billion  == <<"b","i","l","l","i","o","n">>
Million  == <<"m","i","l","l","i","o","n">>
Trillion == <<"t","r","i","l","l","i","o","n">>

\* (\d+\.?\d*)\s+b\s+i\s+l\s+l\s+i\s+o\s+n  ->  \1 billion
SpacedMagnitude(word, s) ==
  ReSub(ReCat(<<ReNumber(1), ReSpelled(ReWs1, word)>>),
        <<TGrp(1), TLit(<<" ">> \o word)>>, s)

\* (\d+\.?\d*)billion  ->  \1 billion
GluedMagnitude(word, s) ==
  ReSub(ReCat(<<ReNumber(1), ReLitI(word)>>),
        <<TGrp(1), TLit(<<" ">> \o word)>>, s)

WhichWasUpText == <<"w","h","i","c","h"," ","w","a","s"," ","u","p"," ">>

\* which\s*was\s*up\s*  IGNORECASE
ReWhichWasUp ==
  ReCat(<<ReLitI(<<"w","h","i","c","h">>), ReWs0, ReLitI(<<"w","a","s">>), ReWs0,
          ReLitI(<<"u","p">>), ReWs0>>)

\* which\s*was\s*up\s*(\d+\.?\d*)  ->  which was up \1%
WhichWasUpSpaced(s) ==
  ReSub(ReCat(<<ReWhichWasUp, ReNumber(1)>>),
        <<TLit(WhichWasUpText), TGrp(1), TLit(<<"%">>)>>, s)

\* whichwasup(\d+\.?\d*)  ->  which was up \1%
WhichWasUpGlued(s) ==
  ReSub(ReCat(<<ReLitI(<<"w","h","i","c","h","w","a","s","u","p">>), ReNumber(1)>>),
        <<TLit(WhichWasUpText), TGrp(1), TLit(<<"%">>)>>, s)

\* (\d+)\s*\.\s*(\d+)\s*%  ->  \1.\2%
BrokenPercent(s) ==
  ReSub(ReCat(<<ReGrp(1, ReDigits), ReWs0, ReSet({"."}), ReWs0,
                ReGrp(2, ReDigits), ReWs0, ReSet({"%"})>>),
        <<TGrp(1), TLit(<<".">>), TGrp(2), TLit(<<"%">>)>>, s)

\* (\d+\.?\d*)\s*billion\s*,\s*which\s*was\s*up\s*(\d+\.?\d*)(\d+\.?\d*)
\*   ->  \1 billion, which was up \2% from \3 billion
BillionWhichWasUp(s) ==
  ReSub(ReCat(<<ReNumber(1), ReWs0, ReLit(Billion), ReWs0, ReSet({","}),
                ReWs0, ReLit(<<"w","h","i","c","h">>), ReWs0,
                ReLit(<<"w","a","s">>), ReWs0, ReLit(<<"u","p">>), ReWs0,
                ReNumber(2), ReNumber(3)>>),
        <<TGrp(1), TLit(<<" ","b","i","l","l","i","o","n",","," ","w","h","i","c","h"," ","w",
      "a","s"," ","u","p"," ">>),
          TGrp(2), TLit(<<"%"," ","f","r","o","m"," ">>),
          TGrp(3), TLit(<<" ">> \o Billion)>>, s)

\* ([a-z])\.([a-z])  IGNORECASE  ->  \1. \2
BrokenSentence(s) ==
  ReSub(ReCat(<<ReGrp(1, ReSet(Letter)), ReSet({"."}), ReGrp(2, ReSet(Letter))>>),
        <<TGrp(1), TLit(<<".", " ">>), TGrp(2)>>, s)

\* (\d+)b(\d+)i(\d+)l(\d+)l(\d+)i(\d+)o(\d+)n  ->  \1\2\3\4\5\6\7 billion
InterleavedBillion(s) ==
  ReSub(ReCat(FlattenSeq(AsTuple([i \in 1..7 |->
                            <<ReGrp(i, ReDigits), ReSet({Billion[i]})>>]))),
        [i \in 1..7 |-> TGrp(i)] \o <<TLit(<<" ">> \o Billion)>>, s)

\* billion,whichwasup  ->  "billion, which was up "
GluedBillionWhich(s) ==
  ReSub(ReLit(<<"b","i","l","l","i","o","n",",","w","h","i","c","h","w","a",
                "s","u","p">>),
        <<TLit(<<"b","i","l","l","i","o","n",","," ","w","h","i","c","h",
                 " ","w","a","s"," ","u","p"," ">>)>>, s)

\* \s+  ->  " "
CollapseWhiteSpace(s) == ReSub(ReWs1, <<TLit(<<" ">>)>>, s)

\* str.strip()
Strip(s) ==
  LET ink == {j \in 1..Len(s) : s[j] \notin WhiteSpace}
  IN  IF ink = {} THEN <<>>
      ELSE SubSeq(s, MinOf(ink), CHOOSE x \in ink : \A y \in ink : y <= x)

_clean_text(text) ==
  LET t0  == IF ReSearch(vertical_text_pattern, text)
               THEN CollapseWhiteSpace(text) ELSE text
      t1  == CollapseWhiteSpace(t0)
      t2  == SpacedMagnitude(Billion, t1)
      t3  == SpacedMagnitude(Million, t2)
      t4  == SpacedMagnitude(Trillion, t3)
      t5  == GluedMagnitude(Billion, t4)
      t6  == GluedMagnitude(Million, t5)
      t7  == GluedMagnitude(Trillion, t6)
      t8  == WhichWasUpSpaced(t7)
      t9  == WhichWasUpGlued(t8)
      t10 == BrokenPercent(t9)
      t11 == BillionWhichWasUp(t10)
      t12 == BrokenSentence(t11)
      t13 == InterleavedBillion(t12)
      t14 == GluedBillionWhich(t13)
  IN  Strip(t14)


----------------------------------------------------------------------------
(* String helpers of Python used by the pipeline.                          *)

\* sep.join(parts)
RECURSIVE Join(_, _)
Join(sep, parts) ==
  IF parts = <<>> THEN <<>>
  ELSE IF Len(parts) = 1 THEN parts[1]
  ELSE parts[1] \o sep \o Join(sep, Tail(parts))

\* s.startswith(prefix)
StartsWith(s, prefix) ==
  Len(s) >= Len(prefix) /\ SubSeq(s, 1, Len(prefix)) = prefix

\* sub in s
Contains(sub, s) ==
  \E i \in 1..(Len(s) - Len(sub) + 1) : SubSeq(s, i, i + Len(sub) - 1) = sub

\* s.split("\n")
RECURSIVE SplitLinesFrom(_, _, _)
SplitLinesFrom(s, i, breaks) ==
  LET later == {j \in breaks : j >= i}
  IN  IF later = {} THEN <<SubSeq(s, i, Len(s))>>
      ELSE <<SubSeq(s, i, MinOf(later) - 1)>>
             \o SplitLinesFrom(s, MinOf(later) + 1, breaks)

SplitLines(s) == SplitLinesFrom(s, 1, {j \in 1..Len(s) : s[j] = "\n"})

\* str(i) for a small positive i
DigitChar == <<"1", "2", "3", "4", "5", "6", "7", "8", "9">>

\* int(year) for a string of digits
DigitValue(c) ==
  CASE c = "0" -> 0 [] c = "1" -> 1 [] c = "2" -> 2 [] c = "3" -> 3
    [] c = "4" -> 4 [] c = "5" -> 5 [] c = "6" -> 6 [] c = "7" -> 7
    [] c = "8" -> 8 [] c = "9" -> 9

RECURSIVE ToInt(_)
ToInt(ds) ==
  IF ds = <<>> THEN 0
  ELSE 10 * ToInt(SubSeq(ds, 1, Len(ds) - 1)) + DigitValue(ds[Len(ds)])

----------------------------------------------------------------------------
(* Answer synthesis: _generate_answer and its fallbacks.                   *)

\* outcomes of one chat.completions.create call followed by
\* response.choices[0].message.content.strip(): the call raises, the
\* message has no content (None.strip() raises), or it has a text
LLMError     == [kind |-> "error", content |-> <<>>]
LLMNotCalled == [kind |-> "not_called", content |-> <<>>]
LLMNoText    == [kind |-> "no_content", content |-> <<>>]
LLMText(txt) == [kind |-> "text", content |-> txt]

NoInfoMessage ==
  <<"I"," ","c","o","u","l","d","n","'","t"," ","f","i","n","d"," ","r","e",
    "l","e","v","a","n","t"," ","i","n","f","o","r","m","a","t","i","o","n",
    " ","t","o"," ","a","n","s","w","e","r"," ","y","o","u","r"," ","q","u",
    "e","s","t","i","o","n",".">>

UnknownTitle == <<"U","n","k","n","o","w","n">>

\* doc.metadata.get("title", doc.metadata.get("company", "Unknown"))
DocTitle(doc) ==
  IF "title" \in DOMAIN doc.metadata THEN doc.metadata.title
  ELSE IF "company" \in DOMAIN doc.metadata THEN doc.metadata.company
  ELSE UnknownTitle

\* the context of _generate_answer
ContextParts(context_docs, web_results) ==
  [i \in 1..Len(context_docs) |->
     <<"D","o","c","u","m","e","n","t"," ","(">> \o DocTitle(context_docs[i].doc) \o <<")",":"," ">>
       \o context_docs[i].doc.content]
  \o (IF web_results # <<>>
        THEN <<<<"W","e","b"," ","I","n","f","o","r","m","a","t","i","o",
                 "n",":"," ">> \o _clean_text(web_results)>>
        ELSE <<>>)

Context(context_docs, web_results) ==
  Join(<<"\n", "\n">>, ContextParts(context_docs, web_results))

SignalTerms ==
  <<<<"$">>, <<"%">>, <<"b","i","l","l","i","o","n">>, <<"m","i","l","l","i","o","n">>, <<"r","e","v","e","n","u","e">>, <<"s","a","l","e",
                                                           "s">>,
    <<"g","r","o","w","t","h">>, <<"i","n","c","r","e","a","s","e">>, <<"d","e","c","r","e","a","s","e">>>>

IsRelevantFact(line) ==
  /\ line # <<>>
  /\ ~StartsWith(line, <<"D","o","c","u","m","e","n","t">>)
  /\ ~StartsWith(line, <<"W","e","b"," ","I","n","f","o","r","m","a","t",
                         "i","o","n">>)
  /\ \E k \in 1..Len(SignalTerms) : Contains(SignalTerms[k], Lower(line))

\* the loop over context_lines that fills relevant_facts
RECURSIVE CollectFacts(_)
CollectFacts(context_lines) ==
  IF context_lines = <<>> THEN <<>>
  ELSE (IF IsRelevantFact(Head(context_lines))
          THEN <<Strip(Head(context_lines))>> ELSE <<>>)
         \o CollectFacts(Tail(context_lines))

RelevantFacts(context) == CollectFacts(SplitLines(context))

MaxFacts == 3

_generate_enhanced_mock_answer(query, context) ==
  LET relevant_facts == RelevantFacts(context)
      shown == IF Len(relevant_facts) > MaxFacts THEN MaxFacts
                                                 ELSE Len(relevant_facts)
      intro ==
        <<"B","a","s","e","d"," ","o","n"," ","t","h","e"," ","p","r","o",
          "v","i","d","e","d"," ","i","n","f","o","r","m","a","t","i","o",
          "n",","," ","I"," ","c","a","n"," ","a","d","d","r","e","s","s",
          " ","y","o","u","r"," ","q","u","e","s","t","i","o","n"," ","a",
          "b","o","u","t"," ","'">>
          \o query \o <<"'",".">>
      facts ==
        IF relevant_facts # <<>>
          THEN <<<<"\n","K","e","y"," ","f","a","c","t","s"," ","f","r","o",
                   "m"," ","t","h","e"," ","d","o","c","u","m","e","n","t",
                   "s",":">>>>
                 \o [i \in 1..shown |->
                       <<DigitChar[i]>> \o <<"."," ">> \o relevant_facts[i]]
          ELSE <<>>
      note ==
        <<"\n","N","o","t","e",":"," ","T","h","i","s"," ","i","s"," ","a",
          " ","g","e","n","e","r","a","t","e","d"," ","r","e","s","p","o",
          "n","s","e"," ","b","a","s","e","d"," ","o","n"," ","t","h","e",
          " ","r","e","t","r","i","e","v","e","d"," ","d","o","c","u","m",
          "e","n","t","s","."," ","F","o","r"," ","m","o","r","e"," ","d",
          "e","t","a","i","l","e","d"," ","a","n","a","l","y","s","i","s",
          ","," ","p","l","e","a","s","e"," ","e","n","s","u","r","e"," ",
          "y","o","u","r"," ","O","p","e","n","A","I"," ","A","P","I"," ",
          "k","e","y"," ","i","s"," ","c","o","r","r","e","c","t","l","y",
          " ","c","o","n","f","i","g","u","r","e","d",".">>
  IN  Join(<<"\n">>, <<intro>> \o facts \o <<note>>)

_generate_mock_answer(query, docs, web_results) ==
  IF /\ Contains(<<"r","e","v","e","n","u","e">>, Lower(query)) \/ Contains(<<"s","a","l","e",
                                                          "s">>, Lower(query))
     /\ docs # <<>>
    THEN <<"A","c","c","o","r","d","i","n","g"," ","t","o"," ","t","h","e",
           " ","l","a","t","e","s","t"," ","f","i","l","i","n","g","s",",",
           " ">>
           \o (IF "company" \in DOMAIN docs[1].doc.metadata
                 THEN docs[1].doc.metadata.company ELSE <<"t","h","e"," ",
                                                          "c","o","m","p",
                                                          "a","n","y">>)
           \o <<" ","h","a","s"," ","s","h","o","w","n"," ","s","t","r","o",
                "n","g"," ","r","e","v","e","n","u","e"," ","p","e","r","f",
                "o","r","m","a","n","c","e"," ","a","s"," ","d","e","t","a",
                "i","l","e","d"," ","i","n"," ","t","h","e"," ","r","e","t",
                "r","i","e","v","e","d"," ","d","o","c","u","m","e","n","t",
                "s",".">>
  ELSE IF Contains(<<"n","v","i","d","i","a">>, Lower(query)) /\ web_results # <<>>
    THEN <<"N","V","I","D","I","A"," ","h","a","s"," ","d","e","m","o","n",
           "s","t","r","a","t","e","d"," ","e","x","c","e","p","t","i","o",
           "n","a","l"," ","g","r","o","w","t","h",","," ","p","a","r","t",
           "i","c","u","l","a","r","l","y"," ","i","n"," ","d","a","t","a",
           " ","c","e","n","t","e","r"," ","a","n","d"," ","A","I","-","r",
           "e","l","a","t","e","d"," ","r","e","v","e","n","u","e"," ","s",
           "t","r","e","a","m","s",".">>
  ELSE <<"B","a","s","e","d"," ","o","n"," ","t","h","e"," ","r","e","t",
         "r","i","e","v","e","d"," ","i","n","f","o","r","m","a","t","i",
         "o","n",","," ","h","e","r","e","'","s"," ","w","h","a","t"," ",
         "I"," ","f","o","u","n","d"," ","r","e","l","e","v","a","n","t",
         " ","t","o"," ","y","o","u","r"," ","q","u","e","r","y",".">>

\* a synthesis that goes from a failed gpt-4o call straight to the
\* deterministic answer
OpenAIAnswerWithoutRetry(query, context, api_key, primary, secondary) ==
  IF api_key = <<>>
    THEN [raised |-> FALSE, llm_calls |-> <<>>,
          answer |-> _generate_enhanced_mock_answer(query, context)]
  ELSE IF primary.kind = "text"
    THEN [raised |-> FALSE, llm_calls |-> <<"gpt-4o">>,
          answer |-> Strip(primary.content)]
  ELSE [raised |-> FALSE, llm_calls |-> <<"gpt-4o">>,
        answer |-> _generate_enhanced_mock_answer(query, context)]

\* a synthesis that does not look at the key before it calls the models
OpenAIAnswerIgnoringMissingKey(query, context, api_key, primary, secondary) ==
  IF primary.kind = "text"
    THEN [raised |-> FALSE, llm_calls |-> <<"gpt-4o">>,
          answer |-> Strip(primary.content)]
  ELSE IF secondary.kind = "text"
    THEN [raised |-> FALSE, llm_calls |-> <<"gpt-4o", "gpt-3.5-turbo">>,
          answer |-> Strip(secondary.content)]
  ELSE [raised |-> FALSE, llm_calls |-> <<"gpt-4o", "gpt-3.5-turbo">>,
        answer |-> _generate_enhanced_mock_answer(query, context)]

\* a synthesis that lets the error of the gpt-3.5-turbo attempt out
OpenAIAnswerRaisingOnFailure(query, context, api_key, primary, secondary) ==
  IF api_key = <<>>
    THEN [raised |-> FALSE, llm_calls |-> <<>>,
          answer |-> _generate_enhanced_mock_answer(query, context)]
  ELSE IF primary.kind = "text"
    THEN [raised |-> FALSE, llm_calls |-> <<"gpt-4o">>,
          answer |-> Strip(primary.content)]
  ELSE IF secondary.kind = "text"
    THEN [raised |-> FALSE, llm_calls |-> <<"gpt-4o", "gpt-3.5-turbo">>,
          answer |-> Strip(secondary.content)]
  ELSE [raised |-> TRUE, llm_calls |-> <<"gpt-4o", "gpt-3.5-turbo">>,
        answer |-> <<>>]

\* _generate_openai_answer(query, context) with the module attribute
\* openai.api_key and the outcomes of the gpt-4o and gpt-3.5-turbo calls;
\* gives the answer, whether the method raised, and the models called
_generate_openai_answer(query, context, api_key, primary, secondary) ==
  IF api_key = <<>>
    THEN [raised |-> FALSE, llm_calls |-> <<>>,
          answer |-> _generate_enhanced_mock_answer(query, context)]
  ELSE IF primary.kind = "text"
    THEN [raised |-> FALSE, llm_calls |-> <<"gpt-4o">>,
          answer |-> Strip(primary.content)]
  ELSE IF secondary.kind = "text"
    THEN [raised |-> FALSE, llm_calls |-> <<"gpt-4o", "gpt-3.5-turbo">>,
          answer |-> Strip(secondary.content)]
  ELSE [raised |-> FALSE, llm_calls |-> <<"gpt-4o", "gpt-3.5-turbo">>,
        answer |-> _generate_enhanced_mock_answer(query, context)]

FallbackAnswer(query, context_docs, web_results, context) ==
  <<"B","a","s","e","d"," ","o","n"," ","t","h","e"," ","a","v","a","i","l",
    "a","b","l","e"," ","i","n","f","o","r","m","a","t","i","o","n",":",
    "\n","\n">> \o context
    \o <<"\n","\n","A","n","a","l","y","s","i","s",":"," ","T","h","e"," ",
         "q","u","e","r","y"," ","\"">> \o query
    \o <<"\""," ","r","e","l","a","t","e","s"," ","t","o"," ","f","i","n",
         "a","n","c","i","a","l"," ","a","n","d"," ","c","o","r","p","o",
         "r","a","t","e"," ","i","n","f","o","r","m","a","t","i","o","n",
         "."," ","T","h","e"," ","r","e","t","r","i","e","v","e","d"," ",
         "d","o","c","u","m","e","n","t","s"," ","p","r","o","v","i","d",
         "e"," ","r","e","l","e","v","a","n","t"," ","c","o","n","t","e",
         "x","t",".","\n","\n","A","n","s","w","e","r",":"," ">>
    \o _generate_mock_answer(query, context_docs, web_results)
    \o <<"\n","\n","N","o","t","e",":"," ","T","h","i","s"," ","i","s"," ",
         "a"," ","f","a","l","l","b","a","c","k"," ","r","e","s","p","o",
         "n","s","e"," ","a","s"," ","t","h","e"," ","A","I"," ","s","e",
         "r","v","i","c","e"," ","i","s"," ","c","u","r","r","e","n","t",
         "l","y"," ","u","n","a","v","a","i","l","a","b","l","e",".">>

\* the try block of _generate_answer: r is what _generate_openai_answer did
SynthesisResult(query, context_docs, web_results, context, r) ==
  [answer |-> _clean_text(IF r.raised
                            THEN FallbackAnswer(query, context_docs,
                                                web_results, context)
                            ELSE r.answer),
   llm_calls |-> r.llm_calls,
   path |-> IF r.raised THEN "fallback" ELSE "openai",
   cleaned |-> TRUE]

\* a synthesis that asks the models whenever a key is there, context or not
AnswerFromContextAlwaysAsking(query, context_docs, web_results, context, api_key, primary, secondary) ==
  SynthesisResult(query, context_docs, web_results, context,
                  _generate_openai_answer(query, context, api_key,
                                          primary, secondary))

\* _generate_answer from the joined context on
AnswerFromContext(query, context_docs, web_results, context, api_key, primary, secondary) ==
  IF context = <<>>
    THEN [answer |-> NoInfoMessage, llm_calls |-> <<>>,
          path |-> "no_context", cleaned |-> FALSE]
    ELSE SynthesisResult(query, context_docs, web_results, context,
                         _generate_openai_answer(query, context, api_key,
                                                 primary, secondary))

\* _generate_answer(query, context_docs, use_web, web_results); gives the
\* returned text, the models called, the branch taken and whether
\* _clean_text was applied to the returned text
_generate_answer(query, context_docs, use_web, web_results, api_key, primary, secondary) ==
  AnswerFromContext(query, context_docs, web_results,
                    Context(context_docs, web_results),
                    api_key, primary, secondary)


----------------------------------------------------------------------------
(* The data the pipeline works on.  Optional values (Python's None) are    *)
(* records, scores are hundredths (0.7 is 70).                             *)

None      == [some |-> FALSE, val |-> <<>>]
Some(x)   == [some |-> TRUE, val |-> x]

QueryRecent == <<"N","V","I","D","I","A"," ","r","e","v","e","n","u","e",
                 " ","2","0","2","5">>
QueryGlued  == <<"a","p","p","l","e","2","0","2","7"," ","s","a","l","e",
                 "s">>

Queries == {QueryRecent, QueryGlued}

\* the years datetime.datetime.now().year may give
CurrentYears == {2026, 2027}

DocApple ==
  [id |-> "AAPL_2023_10K_1",
   content |-> <<"A","p","p","l","e"," ","n","e","t"," ","s","a","l","e",
                 "s"," ","$","3","9","4",".","3","b","i","l","l","i","o",
                 "n",".","\n","U","p"," ","2"," ","."," ","5"," ","%">>,
   metadata |-> [company |-> <<"A","p","p","l","e"," ","I","n","c",".">>]]

DocMemo ==
  [id |-> "doc_memo",
   content |-> <<"m","e","m","o">>,
   metadata |-> [title |-> <<"M","e","m","o">>]]

LongContentLength == 205

\* a document with more content than a source preview takes
DocLong ==
  [id |-> "doc_long",
   content |-> [i \in 1..LongContentLength |->
                  IF i % 2 = 1 THEN "a" ELSE "b"] \o <<>>,
   metadata |-> [title |-> <<"N","o","t","e","s">>]]

\* what vector_store.search can return: (doc, score) pairs, best first
Retrievals ==
  { <<>>,
    <<[doc |-> DocApple, score |-> 90]>>,
    <<[doc |-> DocMemo, score |-> 70], [doc |-> DocApple, score |-> 50]>>,
    <<[doc |-> DocLong, score |-> 80], [doc |-> DocMemo, score |-> 30]>> }

RoutingDecisions == {"local", "web_search"}

\* what web_searcher.search can return
WebTexts == {<<>>, <<"6","0",".","9"," ","b"," ","i"," ","l"," ","l"," ",
                     "i"," ","o"," ","n"," ","i","n"," ","2","0","2","5">>}

\* what one chat completion can give
LLMOutcomes ==
  {LLMError, LLMNoText, LLMText(<<" ","R","e","v","e","n","u","e"," ","w",
                                  "a","s"," ","$","5","b","i","l","l","i",
                                  "o","n","."," ">>)}

\* the values of openai.api_key: missing, or a key
ApiKeys == {<<>>, <<"s","k","-","1">>}

Callers == {"c1", "c2"}

\* the caller of the runs with one search() at a time
MainCaller == "c1"

\* the inputs of the runs with interleaved search() calls
ConcurrentDecisions  == {"web_search"}
ConcurrentRetrievals == {r \in Retrievals : Len(r) = 1}
ConcurrentYears      == {2026}
ConcurrentWebTexts   == {w \in WebTexts : w # <<>>}
ConcurrentOutcomes   == {o \in LLMOutcomes : o # LLMNoText}

\* the number of search() calls of one behaviour
MaxSearches == 3

----------------------------------------------------------------------------
(* The semantic cache, as the pipeline uses it: get(query) gives           *)
(* (response, hit), put(query, answer) stores the answer for the query.    *)

EmptyCache == [q \in Queries |-> None]

\* cache.get(query): the stored entry of an identical query is returned
CacheLookup(c, q) ==
  IF c[q].some THEN [cached_response |-> c[q], cache_hit |-> TRUE]
               ELSE [cached_response |-> None, cache_hit |-> FALSE]

\* cache.put(query, answer): the entry of an identical query is replaced
CacheStore(c, q, a) == [c EXCEPT ![q] = Some(a)]

----------------------------------------------------------------------------
(* Document upload: upload_text_document, upload_file and                  *)
(* _extract_text_from_file.  A file is its name, its bytes, and what       *)
(* PyPDF2.PdfReader makes of the bytes: an error, or the text of each page *)
(* (the empty text for a page without any).                                *)

\* s.endswith(suffix)
EndsWith(s, suffix) ==
  /\ Len(s) >= Len(suffix)
  /\ SubSeq(s, Len(s) - Len(suffix) + 1, Len(s)) = suffix

\* the characters of the bytes 32 to 126, without the grave accent (96)
AsciiChars ==
  <<" ", "!", "\"", "#", "$", "%", "&", "'", "(", ")", "*", "+", ",", "-",
    ".", "/", "0", "1", "2", "3", "4", "5", "6", "7", "8", "9", ":", ";",
    "<", "=", ">", "?", "@", "A", "B", "C", "D", "E", "F", "G", "H", "I",
    "J", "K", "L", "M", "N", "O", "P", "Q", "R", "S", "T", "U", "V", "W",
    "X", "Y", "Z", "[", "\\", "]", "^", "_", "a", "b", "c", "d", "e",
    "f", "g", "h", "i", "j", "k", "l", "m", "n", "o", "p", "q", "r", "s",
    "t", "u", "v", "w", "x", "y", "z", "{", "|", "}", "~">>

\* chr(b) for a byte of AsciiChars
AsciiChar(b) == IF b < 96 THEN AsciiChars[b - 31] ELSE AsciiChars[b - 32]

\* bytes.decode("utf-8") for bytes that are line feeds and characters of
\* AsciiChars, or hold 0xFE or 0xFF, which no UTF-8 sequence contains: the
\* text, or UnicodeDecodeError
Utf8Decode(bytes) ==
  IF \E i \in 1..Len(bytes) : bytes[i] \in {254, 255}
    THEN [raised |-> TRUE, content |-> <<>>]
    ELSE [raised |-> FALSE,
          content |-> [i \in 1..Len(bytes) |->
                         IF bytes[i] = 10 THEN "\n"
                                          ELSE AsciiChar(bytes[i])]
                       \o <<>>]

DecimalDigits == <<"0", "1", "2", "3", "4", "5", "6", "7", "8", "9">>

\* str(n) for n >= 0
RECURSIVE IntToText(_)
IntToText(n) ==
  IF n < 10 THEN <<DecimalDigits[n + 1]>>
            ELSE IntToText(n \div 10) \o <<DecimalDigits[(n % 10) + 1]>>

UnreadablePdf(message) ==
  [readable |-> FALSE, error |-> message, pages |-> <<>>]
ReadablePdf(pages) ==
  [readable |-> TRUE, error |-> <<>>, pages |-> pages]

MimeText == <<"t", "e", "x", "t", "/", "p", "l", "a", "i", "n">>
MimePdf  == <<"a", "p", "p", "l", "i", "c", "a", "t", "i", "o", "n", "/",
    "p", "d", "f">>
MimeWord == <<"a", "p", "p", "l", "i", "c", "a", "t", "i", "o", "n", "/",
    "m", "s", "w", "o", "r", "d">>

\* the file_type inferred by upload_file when none is given
UploadFileType(file_name, file_type) ==
  IF file_type # <<>> THEN file_type
  ELSE IF EndsWith(file_name, <<".", "p", "d", "f">>) THEN MimePdf
  ELSE IF EndsWith(file_name, <<".", "d", "o", "c">>) \/ EndsWith(file_name,
      <<".", "d", "o", "c", "x">>)
    THEN MimeWord
  ELSE IF EndsWith(file_name, <<".", "t", "x", "t">>) THEN MimeText
  ELSE <<>>

\* the file_type inferred by _extract_text_from_file when none is given
ExtractFileType(file_name, file_type) ==
  IF file_type # <<>> THEN file_type
  ELSE IF EndsWith(file_name, <<".", "t", "x", "t">>) THEN MimeText
  ELSE IF EndsWith(file_name, <<".", "p", "d", "f">>) THEN MimePdf
  ELSE IF EndsWith(file_name, <<".", "d", "o", "c">>) \/ EndsWith(file_name,
      <<".", "d", "o", "c", "x">>)
    THEN MimeWord
  ELSE MimeText

\* the page_texts of _extract_text_from_file from page k on
RECURSIVE PageTexts(_, _)
PageTexts(pages, k) ==
  IF k > Len(pages) THEN <<>>
  ELSE (IF pages[k] # <<>>
          THEN <<<<"[", "P", "a", "g", "e", " ">> \o IntToText(k) \o <<"]",
              " ">> \o pages[k]>>
          ELSE <<>>)
         \o PageTexts(pages, k + 1)

\* the PDF branch of _extract_text_from_file
ExtractPdfText(file, file_name) ==
  IF ~file.pdf.readable
    THEN <<"E", "r", "r", "o", "r", " ", "e", "x", "t", "r", "a", "c", "t",
        "i", "n", "g", " ", "t", "e", "x", "t", " ", "f", "r", "o", "m", " ",
        "P", "D", "F", ":", " ">> \o file_name
           \o <<".", " ", "E", "r", "r", "o", "r", ":",
               " ">> \o file.pdf.error
  ELSE IF PageTexts(file.pdf.pages, 1) # <<>>
    THEN Join(<<"\n", "\n">>, PageTexts(file.pdf.pages, 1))
  ELSE <<"N", "o", " ", "t", "e", "x", "t", " ", "c", "o", "u", "l", "d",
      " ", "b", "e", " ", "e", "x", "t", "r", "a", "c", "t", "e", "d", " ",
      "f", "r", "o", "m", " ", "P", "D", "F", ":", " ">> \o file_name

\* _extract_text_from_file(file, file_name, file_type) with the file at its
\* start: the content, or UnicodeDecodeError raised; only the branch of
\* unknown types catches the error of decode
_extract_text_from_file(file, file_name, file_type) ==
  LET actual_type == ExtractFileType(file_name, file_type)
      decoded     == Utf8Decode(file.bytes)
  IN  IF actual_type = MimeText
        THEN decoded
      ELSE IF actual_type = MimePdf
        THEN [raised |-> FALSE, content |-> ExtractPdfText(file, file_name)]
      ELSE IF StartsWith(actual_type, MimeWord)
        THEN [raised |-> FALSE,
              content |-> <<"W", "o", "r", "d", " ", "d", "o", "c", "u", "m",
                  "e", "n", "t", " ", "e", "x", "t", "r", "a", "c", "t", "i",
                  "o", "n", " ", "n", "o", "t", " ", "i", "m", "p", "l", "e",
                  "m", "e", "n", "t", "e", "d", ".", " ", "F", "i", "l", "e",
                  "n", "a", "m", "e", ":", " ">>
                            \o file_name]
      ELSE IF decoded.raised
        THEN [raised |-> FALSE,
              content |-> <<"C", "o", "u", "l", "d", " ", "n", "o", "t", " ",
                  "e", "x", "t", "r", "a", "c", "t", " ", "t", "e", "x", "t",
                  " ", "f", "r", "o", "m", " ", "f", "i", "l", "e", ":",
                  " ">> \o file_name]
      ELSE decoded

\* what PdfReader makes of bytes that are no PDF
NotAPdf ==
  UnreadablePdf(<<"E", "O", "F", " ", "m", "a", "r", "k", "e", "r", " ", "n", "o", "t",
                  " ", "f", "o", "u", "n", "d">>)

\* the files, file types and texts that are uploaded
Files ==
  {\* a text file
   [file_name |-> <<"n", "o", "t", "e", "s", ".", "t", "x", "t">>,
    bytes |-> <<104, 105>>,
    pdf |-> NotAPdf],
   \* a text file that is not UTF-8
   [file_name |-> <<"l", "a", "t", "i", "n", ".", "t", "x", "t">>,
    bytes |-> <<99, 97, 102, 255>>,
    pdf |-> NotAPdf],
   \* a PDF of six pages, one without text
   [file_name |-> <<"r", "e", "p", "o", "r", "t", ".", "p", "d", "f">>,
    bytes |-> <<37, 80, 68, 70, 255>>,
    pdf |-> ReadablePdf(<<<<"Q", "1">>, <<>>, <<"Q", "2">>, <<"Q", "3">>,
                          <<"Q", "4">>, <<"F", "Y">>>>)],
   \* a PDF of six pages without text
   [file_name |-> <<"b", "l", "a", "n", "k", ".", "p", "d", "f">>,
    bytes |-> <<37, 80, 68, 70, 254>>,
    pdf |-> ReadablePdf(<<<<>>, <<>>, <<>>, <<>>, <<>>, <<>>>>)],
   \* a PDF of two pages
   [file_name |-> <<"s", "h", "o", "r", "t", ".", "p", "d", "f">>,
    bytes |-> <<37, 80, 68, 70, 255>>,
    pdf |-> ReadablePdf(<<<<"o", "n", "e">>, <<>>>>)],
   \* a PDF of one page without text
   [file_name |-> <<"s", "c", "a", "n", ".", "p", "d", "f">>,
    bytes |-> <<37, 80, 68, 70, 254>>,
    pdf |-> ReadablePdf(<<<<>>>>)],
   \* a PDF that PdfReader cannot parse
   [file_name |-> <<"b", "r", "o", "k", "e", "n", ".", "p", "d", "f">>,
    bytes |-> <<37, 80, 68, 255>>,
    pdf |-> NotAPdf],
   \* a Word document
   [file_name |-> <<"m", "e", "m", "o", ".", "d", "o", "c", "x">>,
    bytes |-> <<80, 75, 255>>,
    pdf |-> NotAPdf],
   \* a file of an unknown type that is not UTF-8
   [file_name |-> <<"b", "l", "o", "b", ".", "b", "i", "n">>,
    bytes |-> <<255, 216, 255>>,
    pdf |-> NotAPdf],
   \* a file of an unknown type that is UTF-8
   [file_name |-> <<"d", "a", "t", "a", ".", "c", "s", "v">>,
    bytes |-> <<97, 44, 98>>,
    pdf |-> NotAPdf]}

\* file_type as the caller passes it; None and "" are both the empty text
FileTypes == {<<>>, MimeText, MimePdf, MimeWord, <<"i", "m", "a", "g", "e",
    "/", "p", "n", "g">>}

UploadTexts == {<<"A", "p", "p", "l", "e", " ", "n", "e", "t", " ", "s", "a",
    "l", "e", "s">>, <<>>}

\* uuid.uuid4().hex[:10]
Uuids == {<<"0", "a", "1", "b", "2", "c", "3", "d", "4", "e">>, <<"9", "f",
    "8", "e", "7", "d", "6", "c", "5", "b">>}

\* hashlib.md5(text.encode()).hexdigest()[:10]: a name for each text
Md5Of(text) == [md5_of |-> text]

SplitThreshold == 5

\* the metadata the caller passes; None becomes the empty mapping
UploadMetadata == {<<>>, [source |-> <<"1", "0", "-", "K">>]}

NoFile == [file_name |-> <<>>, bytes |-> <<>>, pdf |-> UnreadablePdf(<<>>)]
NoDocument == [id |-> <<>>, content |-> <<>>, metadata |-> <<>>]

\* the running upload: its locals, the documents that add_documents took
\* (added) and those on which it raised (failed), and how it ended
NoUpload ==
  [pc |-> "idle", op |-> "", file |-> NoFile, file_type |-> <<>>,
   metadata |-> <<>>, page_num |-> 0, doc_ids |-> <<>>,
   document |-> NoDocument, added |-> <<>>, failed |-> <<>>,
   returned |-> FALSE, value |-> <<>>, raised |-> ""]

\* metadata.update({"file_name": ..., "file_type": ...}) (upload_time left
\* out); file_type is the one passed, before any is inferred
FileMetadata(metadata, file_name, file_type) ==
  [file_name |-> file_name, file_type |-> file_type] @@ metadata

\* the first page from k on that has text, 0 if there is none
RECURSIVE NextTextPage(_, _)
NextTextPage(pages, k) ==
  IF k > Len(pages) THEN 0
  ELSE IF pages[k] # <<>> THEN k
  ELSE NextTextPage(pages, k + 1)

\* page_document for page k (page_num + 1) of the PDF
PageDocument(pages, k, metadata) ==
  [id |-> [prefix |-> "file", hash |-> Md5Of(pages[k]), page |-> k],
   content |-> <<"[", "P", "a", "g", "e", " ">> \o IntToText(k) \o <<" ",
       "o", "f", " ">>
                 \o IntToText(Len(pages)) \o <<"]", " ">> \o pages[k],
   metadata |-> [page_number |-> k, total_pages |-> Len(pages),
                 content_type |-> <<"p", "d", "f", "_", "p", "a", "g",
                     "e">>] @@ metadata]

\* the standard processing of upload_file up to its add_documents call:
\* the text is extracted, and the document made unless extraction raised
StandardProcessing(u, extracted) ==
  IF extracted.raised
    THEN [u EXCEPT !.pc = "raised", !.raised = "UnicodeDecodeError"]
    ELSE [u EXCEPT !.pc = "add_document",
                   !.document =
                      [id |-> [prefix |-> "file",
                               hash |-> Md5Of(extracted.content), page |-> 0],
                       content |-> extracted.content,
                       metadata |-> u.metadata]]

\* the texts _clean_text is applied to: phrases, and two phrases with a
\* separator between them
NormalizerInputs ==
  LET Phrases ==
       {<<"N", "e", "t", " ", "s", "a", "l", "e", "s", " ", "w", "e", "r", "e", " ", "u", "p">>,
        <<"w", "h", "i", "c", "h", " ", "w", "a", "s", " ", "u", "p">>,
        <<"5", "%">>,
        <<"1", "2", ".", "5", "%">>,
        <<"$", "6", "0", ".", "9", " ", "b", "i", "l", "l", "i", "o", "n">>,
        <<"$", "5", "b", "i", "l", "l", "i", "o", "n">>,
        <<"2", " ", ".", " ", "5", " ", "%">>,
        <<"i", "n", " ", "2", "0", "2", "5", ".">>}
      Separators == {<<" ">>, <<" ", " ">>, <<"\n">>}
  IN  Phrases \cup {p \o sep \o q :
                      p \in Phrases, q \in Phrases, sep \in Separators}

\* no _clean_text call made
NoNormalizer == [text |-> <<>>, returned |-> FALSE, value |-> <<>>]

----------------------------------------------------------------------------
(* The construction of a pipeline: RAGPipeline.__init__ sets the module    *)
(* attribute openai.api_key, makes the client from it and calls            *)
(* _load_sample_data_if_needed.  A document stands here by its id.         *)

\* the ids of sample_documents
sample_documents ==
  <<"AAPL_2023_10K_1", "MSFT_2023_10K_1", "GOOGL_2023_10K_1",
    "TSLA_2023_10K_1", "NVDA_2023_10K_1">>

\* what the documents table can hold when a pipeline is constructed:
\* nothing, the sample documents, or an uploaded document
StoredDocuments ==
  {{}, {sample_documents[i] : i \in 1..Len(sample_documents)}, {"doc_1"}}

\* the running constructor: the documents of the store when it was
\* entered, the add_documents calls that the store took (added) and those
\* on which it raised (failed)
NoConstructor ==
  [pc |-> "idle", documents |-> {}, added |-> <<>>, failed |-> <<>>]

----------------------------------------------------------------------------
(* _generate_enhanced_mock_answer on its own, on the contexts that         *)
(* _generate_answer makes of retrieved documents and web text.             *)

\* the documents and web texts of the contexts: one line or several, with
\* and without signal terms, in either case, with blanks around a line
MockAnswerInputs ==
  LET DocReport ==
        [id |-> "doc_report",
         content |-> <<"S","u","m","m","a","r","y","\n","R","e","v","e","n",
                       "u","e"," ","r","o","s","e","\n","c","o","s","t","s",
                       " ","f","e","l","l","\n","S","a","l","e","s"," ","g",
                       "r","e","w"," ","4","%","\n"," "," ","g","r","o","w",
                       "t","h"," ","o","f"," ","$","2"," ","m","i","l","l",
                       "i","o","n"," ","\n","n","e","t"," ","i","n","c","r",
                       "e","a","s","e">>,
         metadata |-> [title |-> <<"R","e","p","o","r","t">>]]
      DocLine ==
        [id |-> "doc_line", content |-> <<"R","e","v","e","n","u","e"," ",
                                          "g","r","e","w"," ","5","%">>,
         metadata |-> [company |-> <<"A","c","m","e">>]]
      Docs == {DocApple, DocMemo, DocReport, DocLine}
      Lists == {<<>>} \cup {<<[doc |-> d, score |-> 80]>> : d \in Docs}
                 \cup {<<[doc |-> d, score |-> 80], [doc |-> e, score |-> 60]>> :
                         d \in Docs, e \in Docs}
      Texts == {<<>>, <<"s","a","l","e","s"," ","f","e","l","l","\n","d",
                        "e","c","r","e","a","s","e"," ","o","f"," ","3",
                        "%">>}
  IN  {i \in [query : Queries, context_docs : Lists, web_results : Texts] :
         i.context_docs # <<>> \/ i.web_results # <<>>}

\* no _generate_enhanced_mock_answer call made
NoMockAnswer ==
  [query |-> <<>>, context |-> <<>>, returned |-> FALSE, value |-> <<>>]

----------------------------------------------------------------------------
(* RAGPipeline.search, one action for each collaborator call.              *)

VARIABLES
  cache,            \* the entries of self.cache
  openai_api_key,   \* the module attribute openai.api_key
  pc,               \* where each caller's search() stands
  frame,            \* the local variables of each caller's search()
  calls,            \* the collaborator calls of each caller's search()
  result,           \* what each caller's last search() returned
  searches,         \* the number of search() calls started
  written_back,     \* history: the answers whose cache.put has returned
  upload,           \* the upload_text_document or upload_file call
  normalizer,       \* the _clean_text call: its argument and its result
  openai_client,    \* the api_key of the pipeline's self.openai_client
  constructor,      \* the RAGPipeline(...) call that makes another pipeline
  mock_answer       \* the _generate_enhanced_mock_answer call

search_vars == <<cache, openai_api_key, pc, frame, calls, result, searches,
                 written_back>>

vars == <<search_vars, upload, normalizer, openai_client, constructor,
         mock_answer>>

NoFrame ==
  [query |-> <<>>, allow_web_search |-> FALSE,
   cached_response |-> None, cache_hit |-> FALSE,
   routing_decision |-> "", retrieved_docs |-> <<>>,
   has_relevant_docs |-> FALSE, years_in_query |-> <<>>,
   current_year |-> 0, contains_recent_year |-> FALSE,
   web_results |-> <<>>, answer |-> <<>>, path |-> "", put_answer |-> None,
   error |-> "", written_before |-> {}, llm_outcomes |-> <<>>,
   cleaned |-> FALSE]

NoResult == [returned |-> FALSE]

RelevanceThreshold == 70

\* a relevance test that takes a score of exactly 0.7 as relevant
HasRelevantDocsFromThreshold(retrieved_docs) ==
  \E i \in 1..Len(retrieved_docs) :
     retrieved_docs[i].score >= RelevanceThreshold

\* has_relevant_docs
HasRelevantDocs(retrieved_docs) ==
  \E i \in 1..Len(retrieved_docs) :
     retrieved_docs[i].score > RelevanceThreshold

\* \b(19\d\d|20\d\d)\b
ReYear ==
  ReCat(<<ReWordB,
          ReGrp(1, ReAlt(ReCat(<<ReLit(<<"1", "9">>), ReSet(Digit), ReSet(Digit)>>),
                         ReCat(<<ReLit(<<"2", "0">>), ReSet(Digit), ReSet(Digit)>>))),
          ReWordB>>)

YearsInQuery(query) == ReFindAll(ReYear, query)

\* re.findall on each query, worked out once
YearsOfQuery == Tabulated([q \in Queries |-> YearsInQuery(q)])

\* contains_recent_year
ContainsRecentYear(years_in_query, current_year) ==
  \E i \in 1..Len(years_in_query) :
     ToInt(years_in_query[i]) >= current_year - 1

\* the condition without the caller's permission
WebSearchTriggeredUnasked(allow_web_search, routing_decision, has_relevant_docs, contains_recent_year) ==
  routing_decision = "web_search"
    \/ (~has_relevant_docs /\ contains_recent_year)

\* the condition under which web_searcher.search is called
WebSearchTriggered(allow_web_search, routing_decision, has_relevant_docs, contains_recent_year) ==
  allow_web_search
    /\ (routing_decision = "web_search"
          \/ (~has_relevant_docs /\ contains_recent_year))

PreviewLength == 200

\* a preview of the whole content, whatever its length
PreviewOfWholeContent(content) == content \o <<".", ".", ".">>

\* doc.content[:200] + "..."
Preview(content) ==
  SubSeq(content, 1, IF Len(content) < PreviewLength THEN Len(content)
                                                     ELSE PreviewLength)
    \o <<".", ".", ".">>

\* a hit that answers with the query text in place of the cached text
CacheHitResultEchoingQuery(query, cached_response) ==
  [returned |-> TRUE, answer |-> query, sources |-> <<>>,
   cache_hit |-> TRUE, routing_decision |-> "cache",
   web_search_used |-> FALSE, cache_debug |-> [query |-> query]]

\* the dict returned on a cache hit (response_time left out)
CacheHitResult(query, cached_response) ==
  [returned |-> TRUE, answer |-> cached_response.val, sources |-> <<>>,
   cache_hit |-> TRUE, routing_decision |-> "cache",
   web_search_used |-> FALSE, cache_debug |-> [query |-> query]]

Sources(retrieved_docs) ==
  [i \in 1..Len(retrieved_docs) |->
     [content |-> Preview(retrieved_docs[i].doc.content),
      metadata |-> retrieved_docs[i].doc.metadata,
      score |-> retrieved_docs[i].score]] \o <<>>

\* a miss result that reports the permission as the use of web search
MissResultReportingPermission(f) ==
  [returned |-> TRUE, answer |-> f.answer,
   sources |-> Sources(f.retrieved_docs),
   cache_hit |-> FALSE, routing_decision |-> f.routing_decision,
   web_search_used |-> f.allow_web_search,
   web_results |-> IF f.web_results # <<>> THEN Some(f.web_results) ELSE None,
   cache_debug |-> [query |-> f.query]]

\* the dict returned on a cache miss (response_time left out)
MissResult(f) ==
  [returned |-> TRUE, answer |-> f.answer,
   sources |-> Sources(f.retrieved_docs),
   cache_hit |-> FALSE, routing_decision |-> f.routing_decision,
   web_search_used |-> (f.web_results # <<>>),
   web_results |-> IF f.web_results # <<>> THEN Some(f.web_results) ELSE None,
   cache_debug |-> [query |-> f.query]]

Init ==
  /\ cache = EmptyCache
  /\ openai_api_key \in ApiKeys
  /\ pc = [c \in Callers |-> "idle"]
  /\ frame = [c \in Callers |-> NoFrame]
  /\ calls = [c \in Callers |-> <<>>]
  /\ result = [c \in Callers |-> NoResult]
  /\ searches = 0
  /\ written_back = [q \in Queries |-> {}]
  /\ upload = NoUpload
  /\ normalizer = NoNormalizer
  /\ openai_client = openai_api_key
  /\ constructor = NoConstructor
  /\ mock_answer = NoMockAnswer

\* a caller enters search(query, allow_web_search)
Search(c, query, allow_web_search) ==
  /\ pc[c] \in {"idle", "returned", "raised"}
  /\ searches < MaxSearches
  /\ searches' = searches + 1
  /\ pc' = [pc EXCEPT ![c] = "cache_get"]
  /\ frame' = [frame EXCEPT ![c] = [NoFrame EXCEPT
                  !.query = query, !.allow_web_search = allow_web_search,
                  !.written_before = written_back[query]]]
  /\ calls' = [calls EXCEPT ![c] = <<>>]
  /\ result' = [result EXCEPT ![c] = NoResult]
  /\ UNCHANGED <<cache, openai_api_key, upload, normalizer, openai_client, constructor, mock_answer, written_back>>

\* an exception leaves search() at the call that raised it
Raise(c, call) ==
  /\ pc' = [pc EXCEPT ![c] = "raised"]
  /\ frame' = [frame EXCEPT ![c].error = call]
  /\ calls' = [calls EXCEPT ![c] = Append(@, call)]
  /\ UNCHANGED <<openai_api_key, upload, normalizer, openai_client, constructor, mock_answer, result, searches, written_back>>

\* a hit that writes the entry back to the cache before it returns
HitReturnRefreshingEntry(c, cached_response) ==
  /\ pc' = [pc EXCEPT ![c] = "returned"]
  /\ result' = [result EXCEPT ![c] =
                  CacheHitResult(frame[c].query, cached_response)]
  /\ calls' = [calls EXCEPT ![c] = @ \o <<"cache.get", "cache.put">>]
  /\ cache' = CacheStore(cache, frame[c].query, cached_response.val)
  /\ UNCHANGED written_back

\* the return of search() on a cache hit
HitReturn(c, cached_response) ==
  /\ pc' = [pc EXCEPT ![c] = "returned"]
  /\ result' = [result EXCEPT ![c] =
                  CacheHitResult(frame[c].query, cached_response)]
  /\ calls' = [calls EXCEPT ![c] = Append(@, "cache.get")]
  /\ UNCHANGED <<cache, written_back>>

\* a cache.get that waits while another search() of the same query is
\* between its own miss and its write-back
CacheGetWaitingForWriter(c) ==
  /\ pc[c] = "cache_get"
  /\ \A d \in Callers \ {c} :
        ~(/\ frame[d].query = frame[c].query
          /\ pc[d] \in {"route_query", "vector_search", "web_search",
                        "generate_answer", "cache_put"})
  /\ \/ \E got \in {CacheLookup(cache, frame[c].query)} :
          /\ frame' = [frame EXCEPT
                         ![c].cached_response = got.cached_response,
                         ![c].cache_hit = got.cache_hit]
          /\ IF got.cache_hit
               THEN HitReturn(c, got.cached_response)
               ELSE /\ pc' = [pc EXCEPT ![c] = "route_query"]
                    /\ calls' = [calls EXCEPT ![c] = Append(@, "cache.get")]
                    /\ UNCHANGED <<cache, result, written_back>>
          /\ UNCHANGED <<openai_api_key, upload, normalizer, openai_client, constructor, mock_answer, searches>>
     \/ Raise(c, "cache.get") /\ UNCHANGED cache

\* a cache.get whose hit is ignored: search() goes on as on a miss
CacheGetIgnoringHit(c) ==
  /\ pc[c] = "cache_get"
  /\ \/ \E got \in {CacheLookup(cache, frame[c].query)} :
          /\ frame' = [frame EXCEPT
                         ![c].cached_response = got.cached_response,
                         ![c].cache_hit = got.cache_hit]
          /\ pc' = [pc EXCEPT ![c] = "route_query"]
          /\ calls' = [calls EXCEPT ![c] = Append(@, "cache.get")]
          /\ UNCHANGED <<cache, result, written_back, openai_api_key, upload, normalizer, openai_client, constructor, mock_answer,
                         searches>>
     \/ Raise(c, "cache.get") /\ UNCHANGED cache

\* cache.get(query), and the return on a hit
CacheGet(c) ==
  /\ pc[c] = "cache_get"
  /\ \/ \E got \in {CacheLookup(cache, frame[c].query)} :
          /\ frame' = [frame EXCEPT
                         ![c].cached_response = got.cached_response,
                         ![c].cache_hit = got.cache_hit]
          /\ IF got.cache_hit
               THEN HitReturn(c, got.cached_response)
               ELSE /\ pc' = [pc EXCEPT ![c] = "route_query"]
                    /\ calls' = [calls EXCEPT ![c] = Append(@, "cache.get")]
                    /\ UNCHANGED <<cache, result, written_back>>
          /\ UNCHANGED <<openai_api_key, upload, normalizer, openai_client, constructor, mock_answer, searches>>
     \/ Raise(c, "cache.get") /\ UNCHANGED cache

\* a router call after which a web_search decision leaves retrieval out
RouteQuerySkippingRetrieval(c, decisions) ==
  /\ pc[c] = "route_query"
  /\ \/ \E d \in decisions :
          /\ frame' = [frame EXCEPT ![c].routing_decision = d]
          /\ calls' = [calls EXCEPT ![c] = Append(@, "router.route_query")]
          /\ pc' = [pc EXCEPT ![c] =
                      IF d # "web_search" THEN "vector_search"
                      ELSE IF frame[c].allow_web_search THEN "web_search"
                      ELSE "generate_answer"]
          /\ UNCHANGED <<cache, openai_api_key, upload, normalizer, openai_client, constructor, mock_answer, result,
                         searches, written_back>>
     \/ Raise(c, "router.route_query") /\ UNCHANGED cache

\* router.route_query(query)
RouteQuery(c, decisions) ==
  /\ pc[c] = "route_query"
  /\ \/ \E d \in decisions :
          /\ frame' = [frame EXCEPT ![c].routing_decision = d]
          /\ calls' = [calls EXCEPT ![c] = Append(@, "router.route_query")]
          /\ pc' = [pc EXCEPT ![c] = "vector_search"]
          /\ UNCHANGED <<cache, openai_api_key, upload, normalizer, openai_client, constructor, mock_answer, result, searches, written_back>>
     \/ Raise(c, "router.route_query") /\ UNCHANGED cache

\* vector_store.search(query, top_k=5), the relevance and recency tests
VectorSearch(c, retrievals, years_now) ==
  /\ pc[c] = "vector_search"
  /\ \/ \E r \in retrievals, y \in years_now :
          LET f     == frame[c]
              rel   == HasRelevantDocs(r)
              years == YearsOfQuery[f.query]
              now   == IF years # <<>> THEN y ELSE 0
              rec   == IF years # <<>> THEN ContainsRecentYear(years, y)
                                       ELSE FALSE
          IN  /\ frame' = [frame EXCEPT ![c].retrieved_docs = r,
                                        ![c].has_relevant_docs = rel,
                                        ![c].years_in_query = years,
                                        ![c].current_year = now,
                                        ![c].contains_recent_year = rec]
              /\ calls' = [calls EXCEPT ![c] = Append(@, "vector_store.search")]
              /\ pc' = [pc EXCEPT ![c] =
                          IF WebSearchTriggered(f.allow_web_search,
                                                f.routing_decision, rel, rec)
                            THEN "web_search" ELSE "generate_answer"]
              /\ UNCHANGED <<cache, openai_api_key, upload, normalizer, openai_client, constructor, mock_answer, result, searches,
                             written_back>>
     \/ Raise(c, "vector_store.search") /\ UNCHANGED cache

\* web_searcher.search(query)
WebSearch(c, texts) ==
  /\ pc[c] = "web_search"
  /\ \/ \E w \in texts :
          /\ frame' = [frame EXCEPT ![c].web_results = w]
          /\ calls' = [calls EXCEPT ![c] = Append(@, "web_searcher.search")]
          /\ pc' = [pc EXCEPT ![c] = "generate_answer"]
          /\ UNCHANGED <<cache, openai_api_key, upload, normalizer, openai_client, constructor, mock_answer, result, searches, written_back>>
     \/ Raise(c, "web_searcher.search") /\ UNCHANGED cache

\* the inputs of _generate_answer: web results come only with
\* allow_web_search, and a chat completion has an outcome only when it is
\* called (a context, a key, and for gpt-3.5-turbo a failure of gpt-4o)
SynthesisInputs ==
  {i \in [query : Queries, context_docs : Retrievals, use_web : BOOLEAN,
          web_results : WebTexts, api_key : ApiKeys,
          primary : LLMOutcomes \cup {LLMNotCalled},
          secondary : LLMOutcomes \cup {LLMNotCalled}] :
     LET asked == (i.context_docs # <<>> \/ i.web_results # <<>>)
                    /\ i.api_key # <<>>
     IN  /\ i.web_results # <<>> => i.use_web
         /\ (i.primary # LLMNotCalled) <=> asked
         /\ (i.secondary # LLMNotCalled) <=>
               (asked /\ i.primary.kind # "text")}

\* _generate_answer on every input of the model, worked out once
Synthesis ==
  Tabulated([i \in SynthesisInputs |->
               _generate_answer(i.query, i.context_docs, i.use_web,
                                i.web_results, i.api_key,
                                i.primary, i.secondary)])

\* a chat completion that was reached has an outcome
WasCalled(outcome) == outcome # LLMNotCalled

\* self._generate_answer(query, retrieved_docs, allow_web_search, web_results);
\* llm_outcomes keeps what the chat completions it reached gave, cleaned
\* whether the return statement it took applies _clean_text
GenerateAnswer(c, outcomes) ==
  /\ pc[c] = "generate_answer"
  /\ \E primary \in outcomes \cup {LLMNotCalled},
        secondary \in outcomes \cup {LLMNotCalled} :
       LET f == frame[c]
           i == [query |-> f.query, context_docs |-> f.retrieved_docs,
                 use_web |-> f.allow_web_search,
                 web_results |-> f.web_results, api_key |-> openai_api_key,
                 primary |-> primary, secondary |-> secondary]
       IN  /\ i \in SynthesisInputs
           /\ \E g \in {Synthesis[i]} :
                 /\ frame' = [frame EXCEPT
                                ![c].answer = g.answer,
                                ![c].path = g.path,
                                ![c].cleaned = g.cleaned,
                                ![c].llm_outcomes =
                                   SelectSeq(<<primary, secondary>>, WasCalled)]
                 /\ calls' = [calls EXCEPT ![c] = @ \o g.llm_calls]
  /\ pc' = [pc EXCEPT ![c] = "cache_put"]
  /\ UNCHANGED <<cache, openai_api_key, upload, normalizer, openai_client, constructor, mock_answer, result, searches, written_back>>

\* a write-back that leaves the no-information message out of the cache
CachePutSkippingNoInformation(c) ==
  /\ pc[c] = "cache_put"
  /\ \/ /\ frame[c].path = "no_context"
        /\ pc' = [pc EXCEPT ![c] = "returned"]
        /\ result' = [result EXCEPT ![c] = MissResult(frame[c])]
        /\ UNCHANGED <<cache, written_back, frame, calls, openai_api_key, upload, normalizer, openai_client, constructor, mock_answer,
                       searches>>
     \/ /\ frame[c].path # "no_context"
        /\ cache' = CacheStore(cache, frame[c].query, frame[c].answer)
        /\ written_back' = [written_back EXCEPT ![frame[c].query] =
                              @ \cup {frame[c].answer}]
        /\ frame' = [frame EXCEPT ![c].put_answer = Some(frame[c].answer)]
        /\ calls' = [calls EXCEPT ![c] = Append(@, "cache.put")]
        /\ pc' = [pc EXCEPT ![c] = "returned"]
        /\ result' = [result EXCEPT ![c] = MissResult(frame[c])]
        /\ UNCHANGED <<openai_api_key, upload, normalizer, openai_client, constructor, mock_answer, searches>>
     \/ /\ Raise(c, "cache.put")
        /\ cache' \in {cache, CacheStore(cache, frame[c].query,
                                         frame[c].answer)}

\* a write-back that leaves an entry alone that the cache already holds
CachePutKeepingFirstEntry(c) ==
  /\ pc[c] = "cache_put"
  /\ \/ /\ cache' = IF cache[frame[c].query].some
                      THEN cache
                      ELSE CacheStore(cache, frame[c].query, frame[c].answer)
        /\ written_back' = [written_back EXCEPT ![frame[c].query] =
                              @ \cup {frame[c].answer}]
        /\ frame' = [frame EXCEPT ![c].put_answer = Some(frame[c].answer)]
        /\ calls' = [calls EXCEPT ![c] = Append(@, "cache.put")]
        /\ pc' = [pc EXCEPT ![c] = "returned"]
        /\ result' = [result EXCEPT ![c] = MissResult(frame[c])]
        /\ UNCHANGED <<openai_api_key, upload, normalizer, openai_client, constructor, mock_answer, searches>>
     \/ /\ Raise(c, "cache.put")
        /\ cache' \in {cache, CacheStore(cache, frame[c].query,
                                         frame[c].answer)}

\* self.cache.put(query, answer) and the return on a miss; a put that
\* raises may or may not have stored the entry
CachePut(c) ==
  /\ pc[c] = "cache_put"
  /\ \/ /\ cache' = CacheStore(cache, frame[c].query, frame[c].answer)
        /\ written_back' = [written_back EXCEPT ![frame[c].query] =
                              @ \cup {frame[c].answer}]
        /\ frame' = [frame EXCEPT ![c].put_answer = Some(frame[c].answer)]
        /\ calls' = [calls EXCEPT ![c] = Append(@, "cache.put")]
        /\ pc' = [pc EXCEPT ![c] = "returned"]
        /\ result' = [result EXCEPT ![c] = MissResult(frame[c])]
        /\ UNCHANGED <<openai_api_key, upload, normalizer, openai_client, constructor, mock_answer, searches>>
     \/ /\ Raise(c, "cache.put")
        /\ cache' \in {cache, CacheStore(cache, frame[c].query,
                                         frame[c].answer)}

\* one pipeline, one search() at a time, every input of the model
Next ==
  \/ \E q \in Queries, a \in BOOLEAN : Search(MainCaller, q, a)
  \/ CacheGet(MainCaller)
  \/ RouteQuery(MainCaller, RoutingDecisions)
  \/ VectorSearch(MainCaller, Retrievals, CurrentYears)
  \/ WebSearch(MainCaller, WebTexts)
  \/ GenerateAnswer(MainCaller, LLMOutcomes)
  \/ CachePut(MainCaller)

Spec == Init /\ [][Next]_vars

\* one pipeline, search() calls of several callers interleaved at the
\* collaborator calls
ConcurrentNext ==
  \/ \E c \in Callers, q \in Queries, a \in BOOLEAN : Search(c, q, a)
  \/ \E c \in Callers : CacheGet(c)
  \/ \E c \in Callers : RouteQuery(c, ConcurrentDecisions)
  \/ \E c \in Callers : VectorSearch(c, ConcurrentRetrievals, ConcurrentYears)
  \/ \E c \in Callers : WebSearch(c, ConcurrentWebTexts)
  \/ \E c \in Callers : GenerateAnswer(c, ConcurrentOutcomes)
  \/ \E c \in Callers : CachePut(c)

ConcurrentSpec == Init /\ [][ConcurrentNext]_vars

----------------------------------------------------------------------------
(* The uploads, one action for each entry and each add_documents call.     *)

\* a caller enters upload_text_document(content, metadata)
UploadTextDocument(content, metadata, uuid) ==
  /\ upload.pc \in {"idle", "returned", "raised"}
  /\ upload' = [NoUpload EXCEPT
                  !.pc = "add_document", !.op = "upload_text_document",
                  !.metadata = metadata,
                  !.document = [id |-> [prefix |-> "doc", hash |-> uuid,
                                        page |-> 0],
                                content |-> content, metadata |-> metadata]]
  /\ UNCHANGED <<search_vars, normalizer, openai_client, constructor, mock_answer>>

\* a caller enters upload_file(file, file_name, file_type, metadata): a PDF
\* of more than five pages goes to its first page with text, any other file
\* to standard processing
UploadFile(file, file_type, metadata) ==
  /\ upload.pc \in {"idle", "returned", "raised"}
  /\ LET actual_type == UploadFileType(file.file_name, file_type)
         u == [NoUpload EXCEPT
                 !.op = "upload_file", !.file = file,
                 !.file_type = actual_type,
                 !.metadata = FileMetadata(metadata, file.file_name, file_type)]
         first == NextTextPage(file.pdf.pages, 1)
     IN  upload' =
           IF /\ actual_type = MimePdf
              /\ file.pdf.readable
              /\ Len(file.pdf.pages) > SplitThreshold
             THEN IF first = 0
                    THEN [u EXCEPT !.pc = "returned", !.returned = TRUE]
                    ELSE [u EXCEPT !.pc = "add_page", !.page_num = first,
                                   !.document = PageDocument(file.pdf.pages,
                                                             first, u.metadata)]
             ELSE StandardProcessing(u,
                     _extract_text_from_file(file, file.file_name, actual_type))
  /\ UNCHANGED <<search_vars, normalizer, openai_client, constructor, mock_answer>>

\* self.vector_store.add_documents([page_document]) in the page loop; its
\* error is caught by the except of the chunking block, which goes on to
\* standard processing
AddPageDocument ==
  /\ upload.pc = "add_page"
  /\ \/ LET next == NextTextPage(upload.file.pdf.pages, upload.page_num + 1)
            u == [upload EXCEPT
                    !.added = Append(@, upload.document),
                    !.doc_ids = Append(@, upload.document.id)]
        IN  upload' =
              IF next = 0
                THEN [u EXCEPT !.pc = "returned", !.returned = TRUE,
                               !.value = u.doc_ids]
                ELSE [u EXCEPT !.page_num = next,
                               !.document = PageDocument(upload.file.pdf.pages,
                                                         next, upload.metadata)]
     \/ upload' =
          StandardProcessing(
            [upload EXCEPT !.failed = Append(@, upload.document)],
            _extract_text_from_file(upload.file, upload.file.file_name,
                                    upload.file_type))
  /\ UNCHANGED <<search_vars, normalizer, openai_client, constructor, mock_answer>>

\* self.vector_store.add_documents([document]) of upload_text_document and
\* of the standard processing of upload_file: its error is raised again
AddDocument ==
  /\ upload.pc = "add_document"
  /\ \/ upload' = [upload EXCEPT
                      !.pc = "returned", !.returned = TRUE,
                      !.added = Append(@, upload.document),
                      !.value = upload.document.id]
     \/ upload' = [upload EXCEPT
                      !.pc = "raised", !.raised = "add_documents",
                      !.failed = Append(@, upload.document)]
  /\ UNCHANGED <<search_vars, normalizer, openai_client, constructor, mock_answer>>

\* one upload at a time, every file, file type and text of the model
UploadNext ==
  \/ \E t \in UploadTexts, m \in UploadMetadata, u \in Uuids :
        UploadTextDocument(t, m, u)
  \/ \E f \in Files, t \in FileTypes, m \in UploadMetadata : UploadFile(f, t, m)
  \/ AddPageDocument
  \/ AddDocument

UploadSpec == Init /\ [][UploadNext]_vars

----------------------------------------------------------------------------
(* _clean_text on its own: a pipeline with a text to normalize.            *)

NormalizerInit ==
  /\ cache = EmptyCache
  /\ openai_api_key = <<>>
  /\ pc = [c \in Callers |-> "idle"]
  /\ frame = [c \in Callers |-> NoFrame]
  /\ calls = [c \in Callers |-> <<>>]
  /\ result = [c \in Callers |-> NoResult]
  /\ searches = 0
  /\ written_back = [q \in Queries |-> {}]
  /\ upload = NoUpload
  /\ normalizer \in {[NoNormalizer EXCEPT !.text = t] : t \in NormalizerInputs}
  /\ openai_client = openai_api_key
  /\ constructor = NoConstructor
  /\ mock_answer = NoMockAnswer

\* self._clean_text(text)
CleanText ==
  /\ ~normalizer.returned
  /\ normalizer' = [normalizer EXCEPT !.returned = TRUE,
                                      !.value = _clean_text(normalizer.text)]
  /\ UNCHANGED <<search_vars, upload, openai_client, constructor, mock_answer>>

NormalizerSpec == NormalizerInit /\ [][CleanText]_vars

----------------------------------------------------------------------------
(* _generate_enhanced_mock_answer on its own: a pipeline without a key and *)
(* a context to answer from.                                               *)

MockAnswerInit ==
  /\ cache = EmptyCache
  /\ openai_api_key = <<>>
  /\ pc = [c \in Callers |-> "idle"]
  /\ frame = [c \in Callers |-> NoFrame]
  /\ calls = [c \in Callers |-> <<>>]
  /\ result = [c \in Callers |-> NoResult]
  /\ searches = 0
  /\ written_back = [q \in Queries |-> {}]
  /\ upload = NoUpload
  /\ normalizer = NoNormalizer
  /\ openai_client = openai_api_key
  /\ constructor = NoConstructor
  /\ mock_answer \in
       {[NoMockAnswer EXCEPT
           !.query = i.query,
           !.context = Context(i.context_docs, i.web_results)] :
          i \in MockAnswerInputs}

\* self._generate_enhanced_mock_answer(query, context)
GenerateEnhancedMockAnswer ==
  /\ ~mock_answer.returned
  /\ mock_answer' =
       [mock_answer EXCEPT
          !.returned = TRUE,
          !.value = _generate_enhanced_mock_answer(mock_answer.query,
                                                   mock_answer.context)]
  /\ UNCHANGED <<search_vars, upload, normalizer, openai_client, constructor>>

MockAnswerSpec == MockAnswerInit /\ [][GenerateEnhancedMockAnswer]_vars

----------------------------------------------------------------------------
(* A pipeline at work while other pipelines are constructed in the same    *)
(* process.                                                                *)

\* RAGPipeline(openai_api_key) up to its _load_sample_data_if_needed call,
\* with what os.getenv("OPENAI_API_KEY") gives and what the documents table
\* holds: openai.api_key is set, and OpenAI(api_key=...) may raise when it
\* is given no key
__init__(api_key, environment_key, documents) ==
  /\ constructor.pc \in {"idle", "returned", "raised"}
  /\ openai_api_key' = IF api_key # <<>> THEN api_key ELSE environment_key
  /\ \/ constructor' = [NoConstructor EXCEPT !.pc = "load_sample_data",
                                             !.documents = documents]
     \/ /\ openai_api_key' = <<>>
        /\ constructor' = [NoConstructor EXCEPT !.pc = "raised",
                                                !.documents = documents]
  /\ UNCHANGED <<cache, pc, frame, calls, result, searches, written_back>>
  /\ UNCHANGED <<upload, normalizer, openai_client, mock_answer>>

\* self.vector_store.add_documents(sample_documents), whose error is logged
_load_sample_data_if_needed ==
  /\ constructor.pc = "load_sample_data"
  /\ \/ constructor' = [constructor EXCEPT
                          !.pc = "returned",
                          !.added = Append(@, sample_documents)]
     \/ constructor' = [constructor EXCEPT
                          !.pc = "returned",
                          !.failed = Append(@, sample_documents)]
  /\ UNCHANGED <<search_vars, upload, normalizer, openai_client, mock_answer>>

\* what a chat completion of self.openai_client can give: an error when the
\* client was made without a key
ClientOutcomes(outcomes) ==
  IF openai_client = <<>> THEN {LLMError} ELSE outcomes

\* one pipeline, one search() at a time, and constructions of further
\* pipelines between its steps
PipelinesNext ==
  \/ \E q \in Queries, a \in BOOLEAN : Search(MainCaller, q, a)
  \/ CacheGet(MainCaller)
  \/ RouteQuery(MainCaller, ConcurrentDecisions)
  \/ VectorSearch(MainCaller, ConcurrentRetrievals, ConcurrentYears)
  \/ WebSearch(MainCaller, ConcurrentWebTexts)
  \/ GenerateAnswer(MainCaller, ClientOutcomes(ConcurrentOutcomes))
  \/ CachePut(MainCaller)
  \/ \E k \in ApiKeys, e \in ApiKeys, d \in StoredDocuments : __init__(k, e, d)
  \/ _load_sample_data_if_needed

PipelinesSpec == Init /\ [][PipelinesNext]_vars

----------------------------------------------------------------------------
(* The claims about search().                                              *)

\* the calls of one collaborator operation in a caller's search()
CallsOf(c, call) == {i \in 1..Len(calls[c]) : calls[c][i] = call}

\* the caller's search() has returned on a hit, or on a miss
ReturnedHit(c)  == result[c].returned /\ result[c].cache_hit
ReturnedMiss(c) == result[c].returned /\ ~result[c].cache_hit

\* C1: a result returned on a cache hit has an empty source list,
\* web_search_used false, and as its answer the text that cache.get gave,
\* which is the text the cache holds for the query
C1_HitResult ==
  \A c \in Callers :
     ReturnedHit(c) =>
       /\ result[c].sources = <<>>
       /\ result[c].web_search_used = FALSE
       /\ frame[c].cached_response = Some(result[c].answer)
       /\ cache[frame[c].query] = Some(result[c].answer)

\* C1: a search() has returned the cleaned model text from the cache
C1_Witness ==
  \E c \in Callers :
     /\ ReturnedHit(c)
     /\ result[c].answer # <<>>
     /\ result[c].answer # frame[c].query
     /\ frame[c].allow_web_search

\* C2: when cache.get reports a hit, search() returns having called
\* cache.get and nothing else (no router, vector store, web searcher,
\* language model or cache.put), and neither entering search() nor the hit
\* changes the contents of the cache
C2_HitCallsNothingElse ==
  [][\A c \in Callers :
       /\ (pc[c] # "cache_get" /\ pc'[c] = "cache_get") =>
            (calls'[c] = <<>> /\ cache' = cache)
       /\ (pc[c] = "cache_get" /\ frame'[c].cache_hit) =>
            /\ pc'[c] = "returned"
            /\ result'[c].returned
            /\ calls'[c] = <<"cache.get">>
            /\ cache' = cache]_vars

\* C2: a search() without web search has returned on a hit after a
\* write-back of the same query
C2_Witness ==
  \E c \in Callers :
     /\ ReturnedHit(c)
     /\ ~frame[c].allow_web_search
     /\ frame[c].cache_hit
     /\ written_back[frame[c].query] # {}
     /\ Len(calls[c]) = 1

\* C3 as stated: once a search(q) that missed has completed its write-back
\* of (q, a), every later search(q) that returns gives cache_hit true,
\* answer a and no sources
C3_LaterSearchReturnsWrittenAnswer ==
  \A c \in Callers :
     result[c].returned =>
       \A a \in frame[c].written_before :
          /\ result[c].cache_hit
          /\ result[c].answer = a
          /\ result[c].sources = <<>>

\* C3, amended: a search(q) entered after a write-back of q has completed
\* returns, when its cache.get does not raise, cache_hit true, no sources
\* and the answer the cache holds for q at the lookup; and the cache's entry
\* of a query changes only by the cache.put of a search of that query, to
\* the answer of that search.  So the answer is that of the latest cache.put
\* of q: it is a unless another search(q) that missed wrote back after
\* (q, a)
C3_LaterSearchReturnsLastWrittenAnswer ==
  [][/\ \A c \in Callers :
          (/\ pc[c] = "cache_get"
           /\ frame[c].written_before # {}
           /\ pc'[c] \notin {"cache_get", "raised"}) =>
             /\ pc'[c] = "returned"
             /\ result'[c].returned
             /\ result'[c].cache_hit
             /\ result'[c].sources = <<>>
             /\ cache[frame[c].query] = Some(result'[c].answer)
     /\ \A q \in Queries :
          cache'[q] # cache[q] =>
            \E d \in Callers :
               /\ pc[d] = "cache_put"
               /\ frame[d].query = q
               /\ cache'[q] = Some(frame[d].answer)]_vars

\* C3: a search entered after the write-back of (q, a) has returned, on a
\* hit, an answer that a concurrent search(q) wrote back after it
C3_Witness ==
  \E c \in Callers :
     /\ ReturnedHit(c)
     /\ frame[c].written_before # {}
     /\ result[c].answer \notin frame[c].written_before
     /\ result[c].answer \in written_back[frame[c].query]

\* the calls of web_searcher.search in a caller's search()
WebSearcherCalls(c) == CallsOf(c, "web_searcher.search")

\* the years of the 19dd and 20dd tokens of a query: four digits with no
\* letter, digit or underscore next to them
YearTokens(q) ==
  {ToInt(SubSeq(q, i, i + 3)) :
     i \in {j \in 1..(Len(q) - 3) :
              /\ <<q[j], q[j + 1]>> \in {<<"1", "9">>, <<"2", "0">>}
              /\ q[j + 2] \in Digit
              /\ q[j + 3] \in Digit
              /\ (j = 1 \/ q[j - 1] \notin WordChar)
              /\ (j + 3 = Len(q) \/ q[j + 4] \notin WordChar)}}

\* local retrieval gave no document scoring above 0.7
NoDocAboveThreshold(c) ==
  \A i \in 1..Len(frame[c].retrieved_docs) :
     frame[c].retrieved_docs[i].score <= 70

\* the query has a year token of last year or later
HasRecentYearToken(c) ==
  \E y \in YearTokens(frame[c].query) : y >= frame[c].current_year - 1

\* the trigger condition of the web search, in the words of the claims
TriggerHeld(c) ==
  /\ frame[c].allow_web_search
  /\ \/ frame[c].routing_decision = "web_search"
     \/ (NoDocAboveThreshold(c) /\ HasRecentYearToken(c))

\* the caller's search() missed the cache and is past the decision on the
\* web search and past the web search itself
PastWebSearch(c) ==
  \/ pc[c] \in {"generate_answer", "cache_put"}
  \/ ReturnedMiss(c)
  \/ pc[c] = "raised" /\ frame[c].error \in {"web_searcher.search", "cache.put"}

\* C4: a search() entered with allow_web_search false never calls the web
\* searcher, and what it returns has web_search_used false
C4_NoWebSearchUnlessAllowed ==
  \A c \in Callers :
     (pc[c] # "idle" /\ ~frame[c].allow_web_search) =>
       /\ WebSearcherCalls(c) = {}
       /\ pc[c] # "web_search"
       /\ result[c].returned => ~result[c].web_search_used

\* C4: a search() without permission has returned on a miss although the
\* router asked for a web search and the query is recent with no relevant
\* document
C4_Witness ==
  \E c \in Callers :
     /\ ReturnedMiss(c)
     /\ ~frame[c].allow_web_search
     /\ frame[c].routing_decision = "web_search"
     /\ NoDocAboveThreshold(c)
     /\ HasRecentYearToken(c)

C6_WebSearchUsedWhenTriggered ==
  \A c \in Callers :
     (/\ ReturnedMiss(c)
      /\ frame[c].allow_web_search
      /\ NoDocAboveThreshold(c)
      /\ HasRecentYearToken(c)) => result[c].web_search_used

\* C7: a returned result with web_search_used true is a miss whose web
\* results are not empty, are the text the web searcher gave, and whose
\* trigger condition held
C7_WebSearchUsedMeansResults ==
  \A c \in Callers :
     (result[c].returned /\ result[c].web_search_used) =>
       /\ ~result[c].cache_hit
       /\ result[c].web_results.some
       /\ result[c].web_results.val # <<>>
       /\ result[c].web_results.val = frame[c].web_results
       /\ WebSearcherCalls(c) # {}
       /\ TriggerHeld(c)

\* C7: a search() routed local with a relevant document missing has
\* returned web results
C7_Witness ==
  \E c \in Callers :
     /\ ReturnedMiss(c)
     /\ result[c].web_search_used
     /\ frame[c].routing_decision = "local"
     /\ frame[c].retrieved_docs = <<>>

\* C8 as stated: an error raised by router.route_query, vector_store.search
\* or web_searcher.search is caught at the call, so no search() ends with
\* that error
C8_CollaboratorErrorsCaught ==
  \A c \in Callers :
     pc[c] = "raised" =>
       frame[c].error \notin {"router.route_query", "vector_store.search",
                              "web_searcher.search"}

\* C9 as stated: an error raised by cache.get is treated as a miss, so no
\* search() ends with that error
C9_CacheGetErrorIsMiss ==
  \A c \in Callers : ~(pc[c] = "raised" /\ frame[c].error = "cache.get")

\* C10: a search() that returns on a miss has called cache.put once, as its
\* last call and after synthesis, with the query and exactly the answer it
\* returns, which the cache then holds; the no-information message too
C10_MissWritesBackReturnedAnswer ==
  \A c \in Callers :
     ReturnedMiss(c) =>
       /\ Cardinality(CallsOf(c, "cache.put")) = 1
       /\ calls[c][Len(calls[c])] = "cache.put"
       /\ frame[c].path \in {"no_context", "openai", "fallback"}
       /\ frame[c].put_answer = Some(result[c].answer)
       /\ cache[frame[c].query] = Some(result[c].answer)
       /\ result[c].answer \in written_back[frame[c].query]

\* C10: a search() has returned the no-information message and the cache
\* holds it
C10_Witness ==
  \E c \in Callers :
     /\ ReturnedMiss(c)
     /\ frame[c].path = "no_context"
     /\ result[c].answer = NoInfoMessage
     /\ cache[frame[c].query] = Some(NoInfoMessage)

\* C25: when two search() calls of one query have both missed, the step on
\* which the second of them writes back and returns leaves in the cache the
\* answer it passed to cache.put, which is the answer it returns, whatever
\* the first one returned; while both results stand the entry does not
\* change; and a search() of the query whose cache.get comes after a
\* returned miss gets that entry as a hit and leaves the cache as it is
C25_LastCachePutWins ==
  [][\A c \in Callers : \A d \in Callers \ {c} :
        (ReturnedMiss(d) /\ frame[d].query = frame[c].query) =>
           /\ (pc[c] = "cache_put" /\ pc'[c] = "returned") =>
                /\ ReturnedMiss(c)'
                /\ result'[c].answer = frame[c].answer
                /\ frame'[c].put_answer = Some(result'[c].answer)
                /\ cache'[frame[c].query] = Some(result'[c].answer)
           /\ ReturnedMiss(c) => cache'[frame[c].query] = cache[frame[c].query]
           /\ (pc[c] = "cache_get" /\ pc'[c] \notin {"cache_get", "raised"}) =>
                /\ pc'[c] = "returned"
                /\ ReturnedHit(c)'
                /\ Some(result'[c].answer) = cache[frame[c].query]
                /\ cache' = cache]_vars

\* C25 happens: two searches of one query both missed and got different
\* answers, the one that wrote back last has searched again and got its own
\* answer back as a hit, not the answer the other caller received
C25_Witness ==
  \E c \in Callers : \E d \in Callers \ {c} :
     /\ ReturnedHit(c)
     /\ ReturnedMiss(d)
     /\ frame[d].query = frame[c].query
     /\ result[d].answer # result[c].answer
     /\ {result[c].answer, result[d].answer} \subseteq frame[c].written_before
     /\ cache[frame[c].query] = Some(result[c].answer)

----------------------------------------------------------------------------
(* The claims about answer synthesis.                                      *)

\* the chat completions of a caller's search()
LanguageModelCalls(c) == CallsOf(c, "gpt-4o") \cup CallsOf(c, "gpt-3.5-turbo")

\* _generate_answer has returned in the caller's search()
Synthesized(c) ==
  \/ pc[c] = "cache_put"
  \/ ReturnedMiss(c)
  \/ pc[c] = "raised" /\ frame[c].error = "cache.put"

\* C11: when retrieval gave no documents and the web text is empty, the
\* answer of synthesis is the fixed no-information message and no language
\* model was called
C11_EmptyContextGivesFixedMessage ==
  \A c \in Callers :
     (Synthesized(c) /\ frame[c].retrieved_docs = <<>>
                     /\ frame[c].web_results = <<>>)
       => /\ frame[c].answer = NoInfoMessage
          /\ LanguageModelCalls(c) = {}
          /\ ReturnedMiss(c) => result[c].answer = NoInfoMessage

\* C11 happens: with an API key configured, a search() returned after a
\* retrieval without documents and a web search that gave the empty text
C11_Witness ==
  /\ ReturnedMiss(MainCaller)
  /\ openai_api_key # <<>>
  /\ frame[MainCaller].retrieved_docs = <<>>
  /\ frame[MainCaller].web_results = <<>>
  /\ WebSearcherCalls(MainCaller) # {}
  /\ result[MainCaller].answer = NoInfoMessage

\* the chat completions of a caller's search(), in call order
IsModelCall(call) == call \in {"gpt-4o", "gpt-3.5-turbo"}
LanguageModelLog(c) == SelectSeq(calls[c], IsModelCall)

\* an attempt on a model failed: the call raised or its message had no text
AttemptFailed(outcome) == outcome.kind # "text"

\* synthesis had documents or web text to work on
HasContext(c) == frame[c].retrieved_docs # <<>> \/ frame[c].web_results # <<>>

\* what synthesis gives for the caller's inputs when no key is configured
KeyFactsAnswer(c) ==
  Synthesis[[query |-> frame[c].query,
             context_docs |-> frame[c].retrieved_docs,
             use_web |-> frame[c].allow_web_search,
             web_results |-> frame[c].web_results, api_key |-> <<>>,
             primary |-> LLMNotCalled, secondary |-> LLMNotCalled]].answer

\* the normalized text of the one answer the models give
ModelAnswerText ==
  <<"R","e","v","e","n","u","e"," ","w","a","s"," ","$","5"," ","b","i",
    "l","l","i","o","n",".">>

KeyFactsIntro ==
  <<"B","a","s","e","d"," ","o","n"," ","t","h","e"," ","p","r","o","v","i",
    "d","e","d"," ","i","n","f","o","r","m","a","t","i","o","n",","," ","I",
    " ","c","a","n"," ","a","d","d","r","e","s","s"," ","y","o","u","r"," ",
    "q","u","e","s","t","i","o","n"," ","a","b","o","u","t"," ","'">>

DegradedNote ==
  <<"N","o","t","e",":"," ","T","h","i","s"," ","i","s"," ","a"," ","g","e",
    "n","e","r","a","t","e","d"," ","r","e","s","p","o","n","s","e"," ","b",
    "a","s","e","d"," ","o","n"," ","t","h","e"," ","r","e","t","r","i","e",
    "v","e","d"," ","d","o","c","u","m","e","n","t","s","."," ","F","o","r",
    " ","m","o","r","e"," ","d","e","t","a","i","l","e","d"," ","a","n","a",
    "l","y","s","i","s",","," ","p","l","e","a","s","e"," ","e","n","s","u",
    "r","e"," ","y","o","u","r"," ","O","p","e","n","A","I"," ","A","P","I",
    " ","k","e","y"," ","i","s"," ","c","o","r","r","e","c","t","l","y"," ",
    "c","o","n","f","i","g","u","r","e","d",".">>

KeyFactsHeading ==
  <<"K","e","y"," ","f","a","c","t","s"," ","f","r","o","m"," ","t","h","e",
    " ","d","o","c","u","m","e","n","t","s",":"," ","1","."," ">>

\* C13: without an API key, synthesis on a non-empty context makes no chat
\* completion and gives the deterministic answer, which ends with the note
\* that marks it as generated without the model; search() goes on to
\* cache.put, and when it returns, that answer is the returned one and the
\* one written to the cache
C13_NoKeyGivesKeyFactsAnswer ==
  \A c \in Callers :
     (Synthesized(c) /\ HasContext(c) /\ openai_api_key = <<>>) =>
        /\ LanguageModelCalls(c) = {}
        /\ StartsWith(frame[c].answer, KeyFactsIntro)
        /\ EndsWith(frame[c].answer, DegradedNote)
        /\ pc[c] = "raised" => frame[c].error = "cache.put"
        /\ ReturnedMiss(c) =>
             /\ result[c].answer = frame[c].answer
             /\ frame[c].put_answer = Some(frame[c].answer)
             /\ calls[c][Len(calls[c])] = "cache.put"

\* C13 happens: without a key a search() over two documents returned the
\* deterministic answer with a fact of the documents, after cache.put of it
C13_Witness ==
  /\ ReturnedMiss(MainCaller)
  /\ openai_api_key = <<>>
  /\ Len(frame[MainCaller].retrieved_docs) = 2
  /\ Contains(KeyFactsHeading, result[MainCaller].answer)
  /\ EndsWith(result[MainCaller].answer, DegradedNote)
  /\ frame[MainCaller].put_answer = Some(result[MainCaller].answer)

\* C14: every answer that _generate_answer returned was passed through
\* _clean_text by the return statement that gave it, the no-information
\* message included
C14_EveryReturnedAnswerNormalized ==
  \A c \in Callers : Synthesized(c) => frame[c].cleaned

\* the caller's search() went through retrieval, synthesis and write-back
\* itself, once each
DidOwnWork(c) ==
  /\ Cardinality(CallsOf(c, "cache.get")) = 1
  /\ Cardinality(CallsOf(c, "router.route_query")) = 1
  /\ Cardinality(CallsOf(c, "vector_store.search")) = 1
  /\ frame[c].path # ""
  /\ Cardinality(CallsOf(c, "cache.put")) = 1
  /\ frame[c].put_answer = Some(result[c].answer)

\* C17: no state makes a search() wait for another one: whatever the other
\* caller is doing, also for the same query, the next call of a search() in
\* progress can be made and can succeed; and a search() that missed the cache and returned
\* has made its own retrieval, synthesis and cache.put, none of them reused
\* from or suppressed by the other
C17_ConcurrentMissesDoNotInteract ==
  \A c \in Callers :
     /\ pc[c] = "cache_get" =>
          ENABLED (CacheGet(c) /\ pc'[c] # "raised")
     /\ pc[c] = "route_query" =>
          ENABLED (RouteQuery(c, ConcurrentDecisions) /\ pc'[c] # "raised")
     /\ pc[c] = "vector_search" =>
          ENABLED (/\ VectorSearch(c, ConcurrentRetrievals, ConcurrentYears)
                   /\ pc'[c] # "raised")
     /\ pc[c] = "web_search" =>
          ENABLED (WebSearch(c, ConcurrentWebTexts) /\ pc'[c] # "raised")
     /\ pc[c] = "generate_answer" =>
          ENABLED GenerateAnswer(c, ConcurrentOutcomes)
     /\ pc[c] = "cache_put" =>
          ENABLED (CachePut(c) /\ pc'[c] # "raised")
     /\ ReturnedMiss(c) => DidOwnWork(c)

\* C17 happens: two search() calls of the same query have both missed the
\* cache and both returned after their own retrieval, synthesis and
\* cache.put
C17_Witness ==
  /\ \A c \in Callers : ReturnedMiss(c) /\ DidOwnWork(c)
  /\ frame["c1"].query = frame["c2"].query

\* the caller's search() has missed the cache
Missed(c) ==
  \/ pc[c] \in {"route_query", "vector_search", "web_search",
                "generate_answer", "cache_put"}
  \/ ReturnedMiss(c)
  \/ pc[c] = "raised" /\ frame[c].error # "cache.get"

\* the calls of a whole search() on a miss, in the order of the claim: the
\* web searcher only if the trigger held, the chat completions of
\* synthesis where synthesis stands
CallsInOrder(c) ==
  <<"cache.get", "router.route_query", "vector_store.search">>
    \o (IF TriggerHeld(c) THEN <<"web_searcher.search">> ELSE <<>>)
    \o LanguageModelLog(c)
    \o <<"cache.put">>

\* C19: on a cache miss the calls of a search() are made in the order
\* cache.get, router.route_query, vector_store.search, web_searcher.search
\* if triggered, synthesis, cache.put: at every point the calls made so far
\* are the beginning of that sequence, synthesis is over before cache.put,
\* and a search() that returned made all of them, vector_store.search
\* exactly once whatever the router decided
C19_CallsInOrderOnMiss ==
  \A c \in Callers :
     Missed(c) =>
        /\ Len(calls[c]) <= Len(CallsInOrder(c))
        /\ calls[c] = SubSeq(CallsInOrder(c), 1, Len(calls[c]))
        /\ CallsOf(c, "cache.put") # {} => Synthesized(c)
        /\ pc[c] \in {"vector_search", "web_search", "generate_answer"}
             => CallsOf(c, "cache.put") = {}
        /\ ReturnedMiss(c) =>
             /\ calls[c] = CallsInOrder(c)
             /\ Cardinality(CallsOf(c, "vector_store.search")) = 1

\* C19 happens: a search() the router sent to the web returned after
\* vector_store.search, the web search, a chat completion and cache.put
C19_Witness ==
  /\ ReturnedMiss(MainCaller)
  /\ frame[MainCaller].routing_decision = "web_search"
  /\ calls[MainCaller] = <<"cache.get", "router.route_query",
                           "vector_store.search", "web_searcher.search",
                           "gpt-4o", "cache.put">>

\* the source summaries of a returned result stand for the retrieved
\* documents, one each and in retrieval order
OneSummaryPerDocument(c) ==
  /\ Len(result[c].sources) = Len(frame[c].retrieved_docs)
  /\ \A i \in 1..Len(frame[c].retrieved_docs) :
        /\ result[c].sources[i].metadata = frame[c].retrieved_docs[i].doc.metadata
        /\ result[c].sources[i].score = frame[c].retrieved_docs[i].score

\* C20 as stated: every content preview of a returned result is at most
\* 200 characters long, and there is one summary for each retrieved
\* document, in retrieval order
C20_PreviewAtMost200 ==
  \A c \in Callers :
     ReturnedMiss(c) =>
        /\ OneSummaryPerDocument(c)
        /\ \A i \in 1..Len(result[c].sources) :
              Len(result[c].sources[i].content) <= 200

\* C20 as the code has it: every content preview of a returned result is
\* the first 200 characters of the document's content (all of it when it
\* is shorter) followed by three full stops, so at most 203 characters
\* long; there is one summary for each retrieved document, in retrieval
\* order
C20_PreviewIsFirst200AndEllipsis ==
  \A c \in Callers :
     ReturnedMiss(c) =>
        /\ OneSummaryPerDocument(c)
        /\ \A i \in 1..Len(result[c].sources) :
              LET content == frame[c].retrieved_docs[i].doc.content
                  preview == result[c].sources[i].content
                  kept    == IF Len(content) <= 200 THEN Len(content) ELSE 200
              IN  /\ Len(preview) = kept + 3
                  /\ Len(preview) <= 203
                  /\ \A k \in 1..kept : preview[k] = content[k]
                  /\ \A k \in (kept + 1)..(kept + 3) : preview[k] = "."

\* C20 happens: a search() returned two summaries, the first of a document
\* of more than 200 characters with a preview of 203, the second of a
\* short document
C20_Witness ==
  /\ ReturnedMiss(MainCaller)
  /\ Len(result[MainCaller].sources) = 2
  /\ Len(frame[MainCaller].retrieved_docs[1].doc.content) > 200
  /\ Len(result[MainCaller].sources[1].content) = 203
  /\ Len(frame[MainCaller].retrieved_docs[2].doc.content) < 200
  /\ Len(result[MainCaller].sources[2].content) < 200

\* the last sentence of the answer that the except branch of
\* _generate_answer makes
UnavailableNote ==
  <<"T","h","i","s"," ","i","s"," ","a"," ","f","a","l","l","b","a","c","k",
    " ","r","e","s","p","o","n","s","e"," ","a","s"," ","t","h","e"," ","A",
    "I"," ","s","e","r","v","i","c","e"," ","i","s"," ","c","u","r","r","e",
    "n","t","l","y"," ","u","n","a","v","a","i","l","a","b","l","e",".">>

----------------------------------------------------------------------------
(* The claims about the uploads.                                           *)

\* the upload has ended, by a return or by an exception
UploadEnded == upload.pc \in {"returned", "raised"}

\* C15: an upload in which vector_store.add_documents raised on a document,
\* a page of a split PDF included, ends with that error raised to its
\* caller: it does not go on, and it does not return
C15_AddDocumentsErrorRaised ==
  upload.failed # <<>> =>
     /\ upload.pc = "raised"
     /\ upload.raised = "add_documents"
     /\ ~upload.returned

\* the texts with which the placeholder bodies begin
PlaceholderOpenings ==
  {<<"E", "r", "r", "o", "r", " ", "e", "x", "t", "r", "a", "c", "t", "i",
   "n", "g", " ", "t", "e", "x", "t", " ", "f", "r", "o", "m", " ", "P",
   "D", "F", ":", " ">>,
   <<"N", "o", " ", "t", "e", "x", "t", " ", "c", "o", "u", "l", "d", " ",
   "b", "e", " ", "e", "x", "t", "r", "a", "c", "t", "e", "d", " ", "f",
   "r", "o", "m", " ", "P", "D", "F", ":", " ">>,
   <<"W", "o", "r", "d", " ", "d", "o", "c", "u", "m", "e", "n", "t", " ",
   "e", "x", "t", "r", "a", "c", "t", "i", "o", "n", " ", "n", "o", "t",
   " ", "i", "m", "p", "l", "e", "m", "e", "n", "t", "e", "d", ".", " ",
   "F", "i", "l", "e", "n", "a", "m", "e", ":", " ">>,
   <<"C", "o", "u", "l", "d", " ", "n", "o", "t", " ", "e", "x", "t", "r",
   "a", "c", "t", " ", "t", "e", "x", "t", " ", "f", "r", "o", "m", " ",
   "f", "i", "l", "e", ":", " ">>}

IsPlaceholder(content) == \E o \in PlaceholderOpenings : StartsWith(content, o)

\* the content of the uploaded file cannot be read as the type it is
\* handled as: bytes that are no UTF-8 for a text or an unknown type, a PDF
\* that cannot be parsed or has no text on any page, any Word document
UnreadableContent ==
  LET handled_as == ExtractFileType(upload.file.file_name, upload.file_type)
  IN  IF handled_as = MimePdf
        THEN \/ ~upload.file.pdf.readable
             \/ \A k \in 1..Len(upload.file.pdf.pages) :
                   upload.file.pdf.pages[k] = <<>>
      ELSE IF StartsWith(handled_as, MimeWord) THEN TRUE
      ELSE \E i \in 1..Len(upload.file.bytes) :
              upload.file.bytes[i] \in {254, 255}

\* C16: an upload_file of unreadable content in which add_documents did
\* not fail is not aborted, whatever the file type: it returns, one
\* document with a placeholder body was stored, and its id is the value
\* returned
C16_UnreadableFileStoredAsPlaceholder ==
  (/\ upload.op = "upload_file"
   /\ UploadEnded
   /\ upload.failed = <<>>
   /\ UnreadableContent)
    => /\ upload.returned
       /\ Len(upload.added) = 1
       /\ IsPlaceholder(upload.added[1].content)
       /\ upload.value = upload.added[1].id

----------------------------------------------------------------------------
(* The claims about _clean_text.                                           *)

\* the text has no white space but single blanks between its words
SingleSpaced(t) ==
  \A i \in 1..Len(t) :
     t[i] \in WhiteSpace =>
        /\ t[i] = " "
        /\ i < Len(t) => t[i + 1] # " "

Trimmed(t) == t # <<>> => (t[1] # " " /\ t[Len(t)] # " ")

\* no number runs into the magnitude word that follows it
MagnitudesSeparated(t) ==
  ~\E i \in 1..Len(t), w \in {Billion, Million, Trillion} :
      /\ t[i] \in Digit
      /\ StartsWith(SubSeq(Lower(t), i + 1, Len(t)), w)

\* every percent sign follows a digit directly, and no decimal point of a
\* number stands apart from its digits
PercentagesWellFormed(t) ==
  /\ \A i \in 1..Len(t) : t[i] = "%" => (i > 1 /\ t[i - 1] \in Digit)
  /\ \A i \in 2..(Len(t) - 1) :
        t[i] = "." => ~(t[i - 1] = " " /\ t[i + 1] = " ")

\* no three single characters in a row with blanks between them
NoSpacedOutCharacters(t) ==
  ~\E i \in 1..(Len(t) - 4) :
      /\ t[i] \in WordChar /\ t[i + 1] = " " /\ t[i + 2] \in WordChar
      /\ t[i + 3] = " " /\ t[i + 4] \in WordChar
      /\ i > 1 => t[i - 1] = " "
      /\ i + 5 <= Len(t) => t[i + 5] = " "

AlreadyClean(t) ==
  /\ SingleSpaced(t)
  /\ Trimmed(t)
  /\ MagnitudesSeparated(t)
  /\ PercentagesWellFormed(t)
  /\ NoSpacedOutCharacters(t)

\* C18: _clean_text applied to a text that is already clean (single-spaced,
\* trimmed, numbers apart from their magnitude words, percentages well
\* formed, no spaced-out characters) returns the text unchanged
C18_CleanTextUnchanged ==
  (normalizer.returned /\ AlreadyClean(normalizer.text))
    => normalizer.value = normalizer.text

----------------------------------------------------------------------------
(* The claims about the deterministic answer.                              *)

\* the line holds one of the signal terms, in either case
HasSignalTerm(line) ==
  \E k \in 1..Len(SignalTerms) : Contains(SignalTerms[k], Lower(line))

\* the lines of a context that hold a signal term, in context order
SignalLines(context) == SelectSeq(SplitLines(context), HasSignalTerm)

\* the numbered lines of an answer: its key-facts list
IsNumbered(line) ==
  Len(line) >= 3 /\ line[1] \in Digit /\ line[2] = "." /\ line[3] = " "
KeyFactsList(answer) == SelectSeq(SplitLines(answer), IsNumbered)

\* C21 as stated: the key-facts list of the deterministic answer made from
\* a context is the first min(3, n) of the n lines of the context that hold
\* a signal term, numbered from 1 and in context order (blanks around a
\* line aside), and never has more than three items
C21_KeyFactsAreFirstSignalLines ==
  mock_answer.returned =>
    LET lines == SignalLines(mock_answer.context)
        shown == IF Len(lines) > 3 THEN 3 ELSE Len(lines)
    IN  /\ Len(KeyFactsList(mock_answer.value)) <= 3
        /\ KeyFactsList(mock_answer.value) =
             AsTuple([i \in 1..shown |->
                        IntToText(i) \o <<".", " ">> \o Strip(lines[i])])

----------------------------------------------------------------------------
(* The claims about the construction of pipelines.                         *)

\* C22 as stated: whether the synthesis of a pipeline's search() calls the
\* language model or gives the deterministic answer of a missing key
\* depends only on the key the pipeline was constructed with, whatever
\* other pipelines were constructed since, with other keys or none
C22_PathDependsOnOwnCredentialOnly ==
  \A c \in Callers :
     (Synthesized(c) /\ HasContext(c)) =>
        ((LanguageModelCalls(c) # {}) <=> (openai_client # <<>>))

\* C23 as stated: a pipeline constructed over a store that holds documents
\* makes no add_documents call
C23_SampleDataLoadedOnlyIntoEmptyStore ==
  (constructor.pc = "returned" /\ constructor.documents # {}) =>
     (constructor.added = <<>> /\ constructor.failed = <<>>)

====
